---- MODULE Spec2Model ----
(***************************************************************************)
(* Model of the ISMIP6 indexing and comparison tool.                       *)
(*                                                                         *)
(*  - the bounded-cache async loader                                       *)
(*      src/ismip6_comparison_app/components/data_loader.py                *)
(*  - the compare handler of the comparison app and the sidebar callback   *)
(*    that drives the compare button                                       *)
(*      src/ismip6_comparison_app/app.py                                   *)
(*      src/ismip6_comparison_app/components/sidebar.py                    *)
(*  - the catalog builder and its cache accessor                           *)
(*      src/ismip6_index.py                                                *)
(***************************************************************************)
EXTENDS Integers, Sequences, FiniteSets, TLC

(***************************************************************************)
(* Bounds of the model.                                                    *)
(***************************************************************************)
\* longest file list passed to one load_datasets_async call
MaxFiles == 2
\* performance.dataset_cache.max_items: a configuration value
\* (data_loader.py:22, default 10), kept small so that evictions happen
CACHE_MAX_ITEMS == 2
\* number of coroutines (compare tasks) that can exist at the same time
MaxTasks == 2

\* get_file_index calls of one process
MaxCalls == 2

\* listings that fail during one crawl
MaxListFailures == 1

\* directory levels between the projection directory and the file of the
\* paths given to parse_ismip6_path (the expected hierarchy has three)
MaxLevels == 4

\* the largest number of datasets handed to the aggregator
MaxDatasets == 2

\* the rows of the catalog the files are taken from, named by their url
Urls == {1, 2, 3}
\* the coroutines running on_compare_click
Tasks == 1..MaxTasks
\* a caller that awaits load_datasets_async directly
Direct == 0
Callers == {Direct} \cup Tasks
Variables == {"acabf", "lithk"}
DisplayKeys == {"m1 - exp", "m2 - exp"}

\* row['model'] - row['experiment'] of a catalog row: several rows may share it
KeyOf(u) == IF u = 2 THEN "m2 - exp" ELSE "m1 - exp"
\* the variable column of a catalog row
VarOf(u) == IF u = 3 THEN "lithk" ELSE "acabf"

\* one element (key, model, experiment, url, size) of file_list
FileOf(u) == [key |-> KeyOf(u), url |-> u]

\* what opening and decoding a remote file can do
Outcomes == {"ok", "open_error", "grid_error", "no_var"}

\* The time coordinate of the array of variable var in the file at url u:
\* whether time is a dimension and a coordinate of the array, whether its
\* values are cftime objects or can be converted by pd.to_datetime, and the
\* timestamps, each <<year, month>>.
NoTime == [has_time |-> FALSE, convertible |-> TRUE, times |-> <<>>]

Timed(times) == [has_time |-> TRUE, convertible |-> TRUE, times |-> times]

Unconvertible == [has_time |-> TRUE, convertible |-> FALSE, times |-> <<<<0, 0>>>>]

TimeCoordOf(u, var) ==
    CASE u = 1 /\ var = "acabf" -> Timed(<<<<2015, 1>>, <<2100, 12>>>>)
      [] u = 2 /\ var = "acabf" -> Timed(<<<<2020, 6>>, <<2300, 6>>>>)
      [] u = 3 /\ var = "acabf" -> NoTime
      [] u = 1 /\ var = "lithk" -> Timed(<<>>)
      [] u = 2 /\ var = "lithk" -> Timed(<<<<2300, 1>>, <<2020, 1>>>>)
      [] OTHER                  -> Unconvertible

\* A float of an array or of nan_values: NaN, infinity, or the number v.
NaN == [nan |-> TRUE, inf |-> FALSE, v |-> 0]

Inf == [nan |-> FALSE, inf |-> TRUE, v |-> 0]

Float(v) == [nan |-> FALSE, inf |-> FALSE, v |-> v]

\* x != y on floats: NaN differs from everything, itself included
Ne(x, y) == x.nan \/ y.nan \/ x.inf # y.inf \/ x.v # y.v

\* The values of the array of variable var in the file at url u, flattened,
\* as the decode hands them over.
ValuesOf(u, var) ==
    CASE u = 1 /\ var = "acabf" -> <<Float(5), Float(9), Float(0)>>
      [] u = 2 /\ var = "acabf" -> <<Float(9), NaN>>
      [] u = 3 /\ var = "acabf" -> <<Float(0), Float(0)>>
      [] u = 2 /\ var = "lithk" -> <<Float(-1), Float(9)>>
      [] OTHER                  -> <<Float(7)>>

\* the nan_values argument: no sentinel, one sentinel, or a list with a NaN
NanLists == {<<>>, <<Float(9)>>, <<NaN, Float(0)>>}

\* the time_step argument: None, or an index
NoStep == <<>>

TimeSteps == {NoStep, <<0>>}

VARIABLES
    cache_enabled, \* CACHE_ENABLED
    cache,         \* the pn.cache store of load_single_netcdf_cached:
                   \* keys <<url, variable>>, least recently used first
    cache_data,    \* the arrays stored in it, by key
    pc,            \* per caller: position of the coroutine / its worker thread
    file_list,     \* per caller: the file_list argument
    variable,      \* per caller: the variable argument
    idx,           \* per caller: the loop index i
    datasets,      \* per caller: the datasets dict (display key -> loaded array)
    nan_values,    \* per caller: the nan_values argument
    time_step,     \* per caller: the time_step argument
    decode_trace,  \* per caller: what the decode of the current file did to
                   \* the dataset, in order (empty when no decode has run)
    progress,      \* per caller: the calls made to progress_callback, in order
    result,        \* per caller: what the worker thread handed back
    var_data,      \* per caller: the array it handed back (var_data)
    all_time_coords, \* per caller: the time coordinates collected so far
    time_range,    \* per caller: the time range returned
    \* history variables of the loader
    okFiles,       \* per caller: indices i whose file the worker thread loaded
                   \* successfully (or found in the cache)
    started,       \* per caller: indices whose decode was dispatched, in order
    recentKeys,    \* the CACHE_MAX_ITEMS + 1 distinct keys most recently served
                   \* from or stored into the cache, most recent last
    rewritten,     \* the keys <<url, variable>> in whose array some load has
                   \* replaced a sentinel
    \* the comparison app
    selected_variable, \* state.selected_variable
    selected_keys,     \* state.selected_models x state.selected_experiments
    is_loading,        \* state.is_loading
    button_disabled,   \* compare_button.disabled
    state_datasets,    \* state.datasets
    notification,      \* the last notification raised by safe_notification
    onload_pending,    \* the onload callback (auto_load_defaults) has not run
    time_slider_year,    \* state.time_slider_year
    time_range_min,      \* state.time_range_min
    time_range_max,      \* state.time_range_max
    time_slider_visible, \* state.time_slider_visible
    \* the catalog builder
    cache_file,        \* the persisted catalog at cache_path: "absent", "corrupt"
                       \* (a write that failed half way) or "written" with the
                       \* table that to_parquet stored
    index_result,      \* what the last get_file_index call returned or raised
    last_call,         \* history: the inputs and the path of the last call
    calls,             \* history: number of get_file_index calls so far
    forced_calls,      \* history: number of them with force_rebuild set
    crawls,            \* history: number of calls that listed the remote store
    faulty_crawls,     \* history: number of crawls in which a listing or the
                       \* write of the parquet file failed
    builds,            \* history: number of calls that built and returned a catalog
    \* the path parser
    path_parts,        \* the components the path given to the parser is made of
    path,              \* the gcs_path argument of parse_ismip6_path
    parse_result,      \* what parse_ismip6_path returned for it
    \* the aggregator
    agg_datasets,      \* the datasets argument: the arrays of the dict, in the
                       \* order of insertion
    agg_percentiles,   \* the percentile_low and percentile_high arguments
    global_ranges,     \* what calculate_global_ranges returned for them
    coordinate_ranges  \* what get_coordinate_ranges returned for them

loaderVars == <<cache_enabled, cache, pc, file_list, variable, idx, datasets,
                progress, result, all_time_coords, time_range, okFiles, started,
                recentKeys, nan_values, time_step, decode_trace, cache_data,
                var_data, rewritten>>

sliderVars == <<time_slider_year, time_range_min, time_range_max,
                time_slider_visible>>

appVars == <<selected_variable, selected_keys, is_loading, button_disabled,
             state_datasets, notification, onload_pending, sliderVars>>

indexVars == <<cache_file, index_result, last_call, calls, forced_calls, crawls,
               faulty_crawls, builds>>

parseVars == <<path_parts, path, parse_result>>

aggVars == <<agg_datasets, agg_percentiles, global_ranges, coordinate_ranges>>

vars == <<loaderVars, appVars, indexVars, parseVars, aggVars>>

(***************************************************************************)
(* Helpers on sequences.                                                   *)
(***************************************************************************)
Range(s) == {s[n] : n \in DOMAIN s}

Remove(s, x) == SelectSeq(s, LAMBDA y : y # x)

\* the last n elements of s (all of s when it is shorter)
LastN(s, n) == IF Len(s) <= n THEN s ELSE SubSeq(s, Len(s) - n + 1, Len(s))

\* all sequences over S of length at most n
SeqsUpTo(S, n) == UNION {[1..m -> S] : m \in 0..n}

(***************************************************************************)
(* pn.cache(max_items=CACHE_MAX_ITEMS, policy=CACHE_POLICY) around          *)
(* load_single_netcdf_cached, CACHE_POLICY = 'LRU'.                        *)
(***************************************************************************)
CacheKey(t) == <<file_list[t][idx[t] + 1].url, variable[t]>>

\* (mutant) a hit that leaves the order alone: first in, first out
CacheTouchFifo(c, k) == c

\* a hit: the entry becomes the most recently used one
CacheTouch(c, k) == Append(Remove(c, k), k)

\* (mutant) a populate on miss that never evicts
CacheInsertNoEvict(c, k) == Append(Remove(c, k), k)

\* a populate on miss: the entry is stored as the most recently used one and
\* the least recently used entries are evicted down to max_items
CacheInsert(c, k) == LastN(Append(Remove(c, k), k), CACHE_MAX_ITEMS)

\* history of the accesses: k becomes the most recently accessed key
Accessed(r, k) == LastN(Append(Remove(r, k), k), CACHE_MAX_ITEMS + 1)

(***************************************************************************)
(* progress_callback(percent, status): percent is the rational num/den.    *)
(***************************************************************************)
Pct(n, d) == [num |-> n, den |-> d]

PctLeq(p, q) == p.num * q.den <= q.num * p.den

\* (i / total_files) * 100, "Loading ..."
\* A status text is modelled by its kind, the index of the file it is about,
\* the display key it contains ("" when it contains none), what it says of
\* the failure and the count it gives.
\* str(e) of the exception a decode ended with, as far as it is told apart:
\* the "Variable <variable> not found in dataset" of the ValueError of
\* load_single_netcdf_cached, or the text of another exception
Str(e) == IF e = "no_var" THEN "not found" ELSE "exception"

\* (i / total_files) * 100, "Loading <model> - <experiment>... (<size> MB)"
MsgLoading(i, n) ==
    [pct |-> Pct(i * 100, n), kind |-> "Loading", file |-> i, key |-> "",
     detail |-> "", count |-> 0]
\* (mutant) a warning that does not name the file
MsgWarningNoKey(i, n, key) ==
    [pct |-> Pct((i + 1) * 100, n), kind |-> "Warning", file |-> i, key |-> "",
     detail |-> "not found", count |-> 0]
\* ((i + 1) / total_files) * 100, "Warning: <variable> not found in <key>"
MsgWarning(i, n, key) ==
    [pct |-> Pct((i + 1) * 100, n), kind |-> "Warning", file |-> i, key |-> key,
     detail |-> "not found", count |-> 0]
\* (mutant) an error reported as the end of the run
MsgErrorDone(i, n, key, e) ==
    [pct |-> Pct(100, 1), kind |-> "Error", file |-> i, key |-> key,
     detail |-> Str(e), count |-> 0]
\* (mutant) an error text without the key of the file
MsgErrorNoKey(i, n, key, e) ==
    [pct |-> Pct((i + 1) * 100, n), kind |-> "Error", file |-> i, key |-> "",
     detail |-> Str(e), count |-> 0]
\* ((i + 1) / total_files) * 100, "Error loading <key>: <str(e)>"
MsgError(i, n, key, e) ==
    [pct |-> Pct((i + 1) * 100, n), kind |-> "Error", file |-> i, key |-> key,
     detail |-> Str(e), count |-> 0]
\* 100, "Loaded <len(datasets)> datasets successfully"
MsgLoaded(ds) ==
    [pct |-> Pct(100, 1), kind |-> "Loaded", file |-> -1, key |-> "",
     detail |-> "", count |-> Cardinality(DOMAIN ds)]
\* 100, "No files to load"
MsgNoFiles ==
    [pct |-> Pct(100, 1), kind |-> "NoFiles", file |-> -1, key |-> "",
     detail |-> "", count |-> 0]

EmptyDict == [k \in {} |-> 0]

(***************************************************************************)
(* The time range of load_datasets_async.                                  *)
(***************************************************************************)
\* time_range = None
NoTimeRange == <<>>

\* all_time_coords.append(var_data.time) when time is a dimension and a
\* coordinate of the loaded array
CollectTime(coords, coord) ==
    IF coord.has_time THEN Append(coords, coord) ELSE coords

\* [t.year for t in times]
RECURSIVE Years(_)
Years(times) ==
    IF times = <<>> THEN <<>> ELSE <<Head(times)[1]>> \o Years(Tail(times))

\* all_years after the loop over all_time_coords
RECURSIVE AllYears(_)
AllYears(coords) ==
    IF coords = <<>> THEN <<>>
    ELSE Years(Head(coords).times) \o AllYears(Tail(coords))

\* min(all_years) and max(all_years)
MinOf(years) == CHOOSE y \in Range(years) : \A z \in Range(years) : y <= z

MaxOf(years) == CHOOSE y \in Range(years) : \A z \in Range(years) : z <= y

\* (mutant) the range of the first coordinate collected
CalcTimeRangeFirst(coords) ==
    IF coords = <<>> THEN NoTimeRange
    ELSE IF \E n \in DOMAIN coords : ~coords[n].convertible THEN NoTimeRange
    ELSE IF coords[1].times = <<>> THEN NoTimeRange
    ELSE <<MinOf(Years(coords[1].times)), MaxOf(Years(coords[1].times))>>

\* The time range worked out after the loop: None when nothing was
\* collected, when the conversion of a coordinate raises (the except clause
\* prints a warning) or when no year came out of the coordinates.
CalcTimeRange(coords) ==
    IF coords = <<>> THEN NoTimeRange
    ELSE IF \E n \in DOMAIN coords : ~coords[n].convertible THEN NoTimeRange
    ELSE IF AllYears(coords) = <<>> THEN NoTimeRange
    ELSE <<MinOf(AllYears(coords)), MaxOf(AllYears(coords))>>

\* var_data.where(var_data != nan_val, np.nan)
Where(values, nan_val) ==
    [n \in DOMAIN values |-> IF Ne(values[n], nan_val) THEN values[n] ELSE NaN]

\* (mutant) only the first sentinel of the list is replaced
ReplaceNanFirst(values, nans) ==
    IF nans = <<>> THEN values ELSE Where(values, Head(nans))

\* if nan_values: for nan_val in nan_values: var_data = var_data.where(...)
RECURSIVE ReplaceNan(_, _)
ReplaceNan(values, nans) ==
    IF nans = <<>> THEN values
    ELSE ReplaceNan(Where(values, Head(nans)), Tail(nans))

\* no array: the worker thread has handed nothing back
NoArray == [url |-> 0, values |-> <<>>, time |-> NoTime]

\* ds[variable] of the file at url u, as load_single_netcdf_cached returns it
\* and as the uncached branch extracts it
DecodedArray(u, var) ==
    [url |-> u, values |-> ValuesOf(u, var), time |-> TimeCoordOf(u, var)]

\* (mutant) the array reduced to the time step asked for: it has no time
\* dimension left
LoadedArrayAtStep(arr, nans, step) ==
    [url |-> arr.url, values |-> ReplaceNan(arr.values, nans),
     time |-> IF step = NoStep THEN arr.time ELSE NoTime]

\* var_data as it is stored in datasets: the array the worker thread handed
\* back with the sentinels replaced and all its time steps; time_step is not
\* used
LoadedArray(arr, nans, step) ==
    [url |-> arr.url, values |-> ReplaceNan(arr.values, nans), time |-> arr.time]

\* the arrays of the cache once the wrapper has stored arr under k and the
\* cache holds the keys c
CacheStore(store, c, k, arr) ==
    [x \in Range(c) |-> IF x = k THEN arr ELSE store[x]]

\* (mutant) the sentinels are replaced in place, in the array the cache holds
StoreAfterWhereInPlace(store, k, arr) ==
    IF k \in DOMAIN store THEN [store EXCEPT ![k] = arr] ELSE store

\* What var_data = var_data.where(...) leaves in the cache: where returns a
\* new array arr and the name var_data is bound to it; the array stored
\* under k is not written.
StoreAfterWhere(store, k, arr) == store

\* the keys rewritten once the array old of key k has become arr
Rewritten(keys, k, old, arr) ==
    IF arr.values # old.values THEN keys \cup {k} ELSE keys

\* What load_single_netcdf_cached does to the dataset, by the outcome of the
\* decode: open_dataset, correct_grid_coordinates, ds[variable], load(),
\* close(), and the return of the array or the raise of the exception.
\* (mutant) the handle is closed before the data is loaded
load_single_netcdf_closed_first(o) ==
    CASE o = "ok"         -> <<"open", "grid", "select", "close", "load", "return">>
      [] o = "open_error" -> <<"raise">>
      [] o = "grid_error" -> <<"open", "raise">>
      [] OTHER            -> <<"open", "grid", "raise">>

load_single_netcdf_cached(o) ==
    CASE o = "ok"         -> <<"open", "grid", "select", "load", "close", "return">>
      [] o = "open_error" -> <<"raise">>
      [] o = "grid_error" -> <<"open", "raise">>
      [] OTHER            -> <<"open", "grid", "raise">>

\* What the uncached branch of load_datasets_async does to the dataset:
\* open_dataset in the worker thread, correct_grid_coordinates and
\* ds[variable] in the coroutine; the array is not loaded and the dataset
\* not closed.  A missing variable is skipped, not raised.
load_uncached(o) ==
    CASE o = "ok"         -> <<"open", "grid", "select">>
      [] o = "open_error" -> <<"raise">>
      [] o = "grid_error" -> <<"open", "raise">>
      [] OTHER            -> <<"open", "grid", "continue">>

\* datasets[key] = var_data
DictPut(ds, k, v) == [x \in (DOMAIN ds) \cup {k} |-> IF x = k THEN v ELSE ds[x]]

(***************************************************************************)
(* on_compare_click, after load_datasets_async has returned                *)
(***************************************************************************)
\* (mutant) without a time range the slider is left as it is
UpdateTimeSliderKeep(range) ==
    IF range # NoTimeRange
    THEN /\ time_range_min' = range[1]
         /\ time_range_max' = range[2]
         /\ time_slider_year' = range[1]
         /\ time_slider_visible' = TRUE
    ELSE UNCHANGED sliderVars

\* "Update time slider if time range is available": the slider is set to
\* the range and shown, or hidden
UpdateTimeSlider(range) ==
    IF range # NoTimeRange
    THEN /\ time_range_min' = range[1]
         /\ time_range_max' = range[2]
         /\ time_slider_year' = range[1]
         /\ time_slider_visible' = TRUE
    ELSE /\ time_slider_visible' = FALSE
         /\ UNCHANGED <<time_range_min, time_range_max, time_slider_year>>

\* the rest of on_compare_click once the awaited loader has returned ds and
\* the time range, with its finally block
CompareTail(ds, range) ==
    /\ IF DOMAIN ds = {}
       THEN /\ notification' = "error: Failed to load any datasets"
            /\ state_datasets' = state_datasets
            /\ UNCHANGED sliderVars
       ELSE /\ notification' = "success"
            /\ state_datasets' = ds
            /\ UpdateTimeSlider(range)
    /\ is_loading' = FALSE
    /\ button_disabled' = FALSE
    /\ UNCHANGED <<selected_variable, selected_keys, onload_pending>>

(***************************************************************************)
(* load_datasets_async                                                     *)
(***************************************************************************)
\* (mutant) the percent of the file after the one that is begun
BeginFileNextPct(t, files, j, prog, ds, st) ==
    /\ idx' = [idx EXCEPT ![t] = j]
    /\ datasets' = [datasets EXCEPT ![t] = ds]
    /\ progress' = [progress EXCEPT ![t] = Append(prog, MsgLoading(j + 1, Len(files)))]
    /\ started' = [started EXCEPT ![t] = Append(st, j)]
    /\ pc' = [pc EXCEPT ![t] = "queued"]

\* File j of the loop is begun: progress callback, then the decode is
\* dispatched to a worker thread and awaited.
BeginFile(t, files, j, prog, ds, st) ==
    /\ idx' = [idx EXCEPT ![t] = j]
    /\ datasets' = [datasets EXCEPT ![t] = ds]
    /\ progress' = [progress EXCEPT ![t] = Append(prog, MsgLoading(j, Len(files)))]
    /\ started' = [started EXCEPT ![t] = Append(st, j)]
    /\ pc' = [pc EXCEPT ![t] = "queued"]

\* The for loop at index j, entered with the progress log prog, the dict ds
\* and the history st: either file j is begun, or the loop is over: final
\* callback and return.  A direct caller keeps what was returned; the
\* coroutine of on_compare_click runs on to its end and its frame is dropped.
LoopEnter(t, files, j, prog, ds, st, coords) ==
    IF j < Len(files)
    THEN /\ BeginFile(t, files, j, prog, ds, st)
         /\ result' = [result EXCEPT ![t] = "none"]
         /\ decode_trace' = [decode_trace EXCEPT ![t] = <<>>]
         /\ var_data' = [var_data EXCEPT ![t] = NoArray]
         /\ all_time_coords' = [all_time_coords EXCEPT ![t] = coords]
         /\ UNCHANGED <<file_list, variable, okFiles, time_range>>
         /\ UNCHANGED appVars
    ELSE IF t = Direct
    THEN /\ idx' = [idx EXCEPT ![t] = j]
         /\ datasets' = [datasets EXCEPT ![t] = ds]
         /\ progress' = [progress EXCEPT ![t] = Append(prog, MsgLoaded(ds))]
         /\ started' = [started EXCEPT ![t] = st]
         /\ pc' = [pc EXCEPT ![t] = "returned"]
         /\ result' = [result EXCEPT ![t] = "none"]
         /\ decode_trace' = [decode_trace EXCEPT ![t] = <<>>]
         /\ var_data' = [var_data EXCEPT ![t] = NoArray]
         /\ all_time_coords' = [all_time_coords EXCEPT ![t] = coords]
         /\ time_range' = [time_range EXCEPT ![t] = CalcTimeRange(coords)]
         /\ UNCHANGED <<file_list, variable, okFiles>>
         /\ UNCHANGED appVars
    ELSE /\ idx' = [idx EXCEPT ![t] = 0]
         /\ datasets' = [datasets EXCEPT ![t] = EmptyDict]
         /\ progress' = [progress EXCEPT ![t] = <<>>]
         /\ started' = [started EXCEPT ![t] = <<>>]
         /\ pc' = [pc EXCEPT ![t] = "idle"]
         /\ result' = [result EXCEPT ![t] = "none"]
         /\ decode_trace' = [decode_trace EXCEPT ![t] = <<>>]
         /\ var_data' = [var_data EXCEPT ![t] = NoArray]
         /\ all_time_coords' = [all_time_coords EXCEPT ![t] = <<>>]
         /\ time_range' = [time_range EXCEPT ![t] = NoTimeRange]
         /\ file_list' = [file_list EXCEPT ![t] = <<>>]
         /\ variable' = [variable EXCEPT ![t] = "acabf"]
         /\ okFiles' = [okFiles EXCEPT ![t] = {}]
         /\ CompareTail(ds, CalcTimeRange(coords))

\* (mutant) no early return for an empty list: the loop runs over nothing and
\* the final callback reports the number of datasets loaded
LoadCallNoEarlyReturn(t, files, var) ==
    /\ file_list' = [file_list EXCEPT ![t] = files]
    /\ variable' = [variable EXCEPT ![t] = var]
    /\ okFiles' = [okFiles EXCEPT ![t] = {}]
    /\ result' = [result EXCEPT ![t] = "none"]
    /\ decode_trace' = [decode_trace EXCEPT ![t] = <<>>]
    /\ var_data' = [var_data EXCEPT ![t] = NoArray]
    /\ all_time_coords' = [all_time_coords EXCEPT ![t] = <<>>]
    /\ time_range' = [time_range EXCEPT ![t] = NoTimeRange]
    /\ IF Len(files) = 0
       THEN /\ progress' = [progress EXCEPT ![t] = <<MsgLoaded(EmptyDict)>>]
            /\ pc' = [pc EXCEPT ![t] = "returned"]
            /\ idx' = [idx EXCEPT ![t] = 0]
            /\ datasets' = [datasets EXCEPT ![t] = EmptyDict]
            /\ started' = [started EXCEPT ![t] = <<>>]
       ELSE BeginFile(t, files, 0, <<>>, EmptyDict, <<>>)

\* the call of load_datasets_async up to its first await (or its return)
LoadCall(t, files, var) ==
    /\ file_list' = [file_list EXCEPT ![t] = files]
    /\ variable' = [variable EXCEPT ![t] = var]
    /\ okFiles' = [okFiles EXCEPT ![t] = {}]
    /\ result' = [result EXCEPT ![t] = "none"]
    /\ decode_trace' = [decode_trace EXCEPT ![t] = <<>>]
    /\ var_data' = [var_data EXCEPT ![t] = NoArray]
    /\ all_time_coords' = [all_time_coords EXCEPT ![t] = <<>>]
    /\ time_range' = [time_range EXCEPT ![t] = NoTimeRange]
    /\ IF Len(files) = 0
       THEN /\ progress' = [progress EXCEPT ![t] = <<MsgNoFiles>>]
            /\ pc' = [pc EXCEPT ![t] = "returned"]
            /\ idx' = [idx EXCEPT ![t] = 0]
            /\ datasets' = [datasets EXCEPT ![t] = EmptyDict]
            /\ started' = [started EXCEPT ![t] = <<>>]
       ELSE BeginFile(t, files, 0, <<>>, EmptyDict, <<>>)

\* a caller awaits load_datasets_async(file_list, variable, [], None, ...)
Call ==
    /\ pc[Direct] \in {"idle", "returned"}
    /\ \E files \in SeqsUpTo({FileOf(u) : u \in Urls}, MaxFiles), var \in Variables :
          LoadCall(Direct, files, var)
    /\ nan_values' = [nan_values EXCEPT ![Direct] = <<>>]
    /\ time_step' = [time_step EXCEPT ![Direct] = NoStep]
    /\ UNCHANGED <<cache_enabled, cache, recentKeys, cache_data, rewritten>>
    /\ UNCHANGED appVars
    /\ UNCHANGED <<indexVars, parseVars, aggVars>>

\* the first call of the process: a caller awaits
\* load_datasets_async(file_list, variable, nan_values, time_step, ...)
CallWith ==
    /\ pc[Direct] = "idle"
    /\ \E files \in SeqsUpTo({FileOf(u) : u \in Urls}, MaxFiles), var \in Variables,
          nans \in NanLists, step \in TimeSteps :
          /\ LoadCall(Direct, files, var)
          /\ nan_values' = [nan_values EXCEPT ![Direct] = nans]
          /\ time_step' = [time_step EXCEPT ![Direct] = step]
    /\ UNCHANGED <<cache_enabled, cache, recentKeys, cache_data, rewritten>>
    /\ UNCHANGED appVars
    /\ UNCHANGED <<indexVars, parseVars, aggVars>>

\* a later call of the process: the caller awaits load_datasets_async for the
\* same files and variable with another sentinel list
CallAgain ==
    /\ pc[Direct] = "returned"
    /\ \E nans \in NanLists \ {nan_values[Direct]} :
          /\ LoadCall(Direct, file_list[Direct], variable[Direct])
          /\ nan_values' = [nan_values EXCEPT ![Direct] = nans]
    /\ UNCHANGED <<cache_enabled, cache, recentKeys, cache_data, rewritten, time_step>>
    /\ UNCHANGED appVars
    /\ UNCHANGED <<indexVars, parseVars, aggVars>>

\* The worker thread of asyncio.to_thread starts running.  With the cache
\* enabled it runs the pn.cache wrapper: a resident key is returned at once,
\* a missing one runs load_single_netcdf_cached.  With the cache disabled it
\* runs xr.open_dataset.
ThreadRun(t) ==
    /\ pc[t] = "queued"
    /\ IF cache_enabled /\ CacheKey(t) \in Range(cache)
       THEN /\ cache' = CacheTouch(cache, CacheKey(t))
            /\ recentKeys' = Accessed(recentKeys, CacheKey(t))
            /\ result' = [result EXCEPT ![t] = "hit"]
            /\ var_data' = [var_data EXCEPT ![t] = cache_data[CacheKey(t)]]
            /\ okFiles' = [okFiles EXCEPT ![t] = @ \cup {idx[t]}]
            /\ pc' = [pc EXCEPT ![t] = "ready"]
       ELSE /\ pc' = [pc EXCEPT ![t] = "fetching"]
            /\ UNCHANGED <<cache, recentKeys, result, var_data, okFiles>>
    /\ UNCHANGED <<decode_trace, cache_data, rewritten>>
    /\ UNCHANGED <<cache_enabled, file_list, variable, idx, datasets, progress, started,
                   all_time_coords, time_range, nan_values, time_step>>
    /\ UNCHANGED appVars
    /\ UNCHANGED <<indexVars, parseVars, aggVars>>

\* (mutant) the returned array is stored whether or not the cache is enabled
ThreadFinishAlwaysStore(t) ==
    /\ pc[t] = "fetching"
    /\ \E o \in Outcomes :
          /\ result' = [result EXCEPT ![t] = o]
          /\ decode_trace' = [decode_trace EXCEPT ![t] =
                IF cache_enabled THEN load_single_netcdf_cached(o)
                ELSE load_uncached(o)]
          /\ okFiles' = [okFiles EXCEPT ![t] = IF o = "ok" THEN @ \cup {idx[t]} ELSE @]
          /\ var_data' = [var_data EXCEPT ![t] =
                IF o = "ok" THEN DecodedArray(CacheKey(t)[1], variable[t])
                ELSE NoArray]
          /\ IF o = "ok"
             THEN /\ cache' = CacheInsert(cache, CacheKey(t))
                  /\ cache_data' = CacheStore(cache_data,
                                              CacheInsert(cache, CacheKey(t)),
                                              CacheKey(t),
                                              DecodedArray(CacheKey(t)[1], variable[t]))
                  /\ recentKeys' = Accessed(recentKeys, CacheKey(t))
             ELSE UNCHANGED <<cache, cache_data, recentKeys>>
    /\ UNCHANGED rewritten
    /\ pc' = [pc EXCEPT ![t] = "ready"]
    /\ UNCHANGED <<cache_enabled, file_list, variable, idx, datasets, progress, started,
                   all_time_coords, time_range, nan_values, time_step>>
    /\ UNCHANGED appVars
    /\ UNCHANGED <<indexVars, parseVars, aggVars>>

\* The fetch and parse of the worker thread ends.  In load_single_netcdf_cached
\* every failure (open, grid correction, variable missing) raises and nothing
\* is stored; a returned array is stored by the cache wrapper.
ThreadFinish(t) ==
    /\ pc[t] = "fetching"
    /\ \E o \in Outcomes :
          /\ result' = [result EXCEPT ![t] = o]
          /\ decode_trace' = [decode_trace EXCEPT ![t] =
                IF cache_enabled THEN load_single_netcdf_cached(o)
                ELSE load_uncached(o)]
          /\ okFiles' = [okFiles EXCEPT ![t] = IF o = "ok" THEN @ \cup {idx[t]} ELSE @]
          /\ var_data' = [var_data EXCEPT ![t] =
                IF o = "ok" THEN DecodedArray(CacheKey(t)[1], variable[t])
                ELSE NoArray]
          /\ IF cache_enabled /\ o = "ok"
             THEN /\ cache' = CacheInsert(cache, CacheKey(t))
                  /\ cache_data' = CacheStore(cache_data,
                                              CacheInsert(cache, CacheKey(t)),
                                              CacheKey(t),
                                              DecodedArray(CacheKey(t)[1], variable[t]))
                  /\ recentKeys' = Accessed(recentKeys, CacheKey(t))
             ELSE UNCHANGED <<cache, cache_data, recentKeys>>
    /\ UNCHANGED rewritten
    /\ pc' = [pc EXCEPT ![t] = "ready"]
    /\ UNCHANGED <<cache_enabled, file_list, variable, idx, datasets, progress, started,
                   all_time_coords, time_range, nan_values, time_step>>
    /\ UNCHANGED appVars
    /\ UNCHANGED <<indexVars, parseVars, aggVars>>

\* (mutant) no except clause: an exception of the decode leaves the loader
ResumeNoCatch(t) ==
    /\ pc[t] = "ready"
    /\ LET files == file_list[t]
           i == idx[t]
           f == files[i + 1]
       IN  IF result[t] \in {"ok", "hit"}
           THEN /\ LoopEnter(t, files, i + 1, progress[t],
                             DictPut(datasets[t], f.key,
                                     LoadedArray(var_data[t], nan_values[t],
                                                 time_step[t])),
                             started[t],
                             CollectTime(all_time_coords[t],
                                         LoadedArray(var_data[t], nan_values[t],
                                                     time_step[t]).time))
                /\ cache_data' = StoreAfterWhere(cache_data, CacheKey(t),
                                                 LoadedArray(var_data[t], nan_values[t],
                                                             time_step[t]))
                /\ rewritten' = Rewritten(rewritten, CacheKey(t), var_data[t],
                                          LoadedArray(var_data[t], nan_values[t],
                                                      time_step[t]))
           ELSE /\ pc' = [pc EXCEPT ![t] = "raised"]
                /\ UNCHANGED <<file_list, variable, idx, datasets, progress, result,
                               okFiles, started, all_time_coords, time_range,
                               decode_trace, cache_data, var_data, rewritten>>
                /\ UNCHANGED appVars
    /\ UNCHANGED <<cache_enabled, cache, recentKeys, nan_values, time_step>>
    /\ UNCHANGED <<indexVars, parseVars, aggVars>>

\* The coroutine resumes after the await with the thread's result and runs
\* the rest of the iteration (the except clause when the result is an
\* exception), then the loop goes on to the next file.
Resume(t) ==
    /\ pc[t] = "ready"
    /\ LET files == file_list[t]
           n == Len(files)
           i == idx[t]
           f == files[i + 1]
       IN  CASE result[t] \in {"ok", "hit"} ->
                   /\ LoopEnter(t, files, i + 1, progress[t],
                                DictPut(datasets[t], f.key,
                                        LoadedArray(var_data[t], nan_values[t],
                                                    time_step[t])),
                                started[t],
                                CollectTime(all_time_coords[t],
                                            LoadedArray(var_data[t], nan_values[t],
                                                        time_step[t]).time))
                   /\ cache_data' = StoreAfterWhere(cache_data, CacheKey(t),
                                                    LoadedArray(var_data[t],
                                                                nan_values[t],
                                                                time_step[t]))
                   /\ rewritten' = Rewritten(rewritten, CacheKey(t), var_data[t],
                                             LoadedArray(var_data[t], nan_values[t],
                                                         time_step[t]))
             [] result[t] = "no_var" /\ ~cache_enabled ->
                   /\ LoopEnter(t, files, i + 1,
                                Append(progress[t], MsgWarning(i, n, f.key)),
                                datasets[t], started[t], all_time_coords[t])
                   /\ UNCHANGED <<cache_data, rewritten>>
             [] OTHER ->
                   /\ LoopEnter(t, files, i + 1,
                                Append(progress[t], MsgError(i, n, f.key, result[t])),
                                datasets[t], started[t], all_time_coords[t])
                   /\ UNCHANGED <<cache_data, rewritten>>
    /\ UNCHANGED <<cache_enabled, cache, recentKeys, nan_values, time_step>>
    /\ UNCHANGED <<indexVars, parseVars, aggVars>>

(***************************************************************************)
(* The comparison app: the compare button, the sidebar, on_compare_click.  *)
(***************************************************************************)
\* state.get_matched_files(), as the file_list on_compare_click builds from
\* it: the catalog rows of the selected variable, models and experiments
RECURSIVE MatchedFrom(_, _, _)
MatchedFrom(u, var, keys) ==
    IF u \notin Urls THEN <<>>
    ELSE IF VarOf(u) = var /\ KeyOf(u) \in keys
         THEN <<FileOf(u)>> \o MatchedFrom(u + 1, var, keys)
         ELSE MatchedFrom(u + 1, var, keys)

get_matched_files(var, keys) == MatchedFrom(1, var, keys)

\* update_info_box: the compare button is enabled exactly when files match
update_info_box(var, keys) == Len(get_matched_files(var, keys)) = 0

\* on_compare_click from its start to the first await (or to its return when
\* no files match), run by the task the button click or the onload callback
\* created
CompareBegin(t) ==
    LET matched == get_matched_files(selected_variable, selected_keys)
    IN  IF Len(matched) = 0
        THEN /\ notification' = "warning: No files matched"
             /\ is_loading' = FALSE
             /\ button_disabled' = FALSE
             /\ UNCHANGED <<state_datasets, cache_enabled, cache, recentKeys>>
             /\ UNCHANGED <<pc, file_list, variable, idx, datasets, progress, result,
                            okFiles, started, all_time_coords, time_range,
                            nan_values, time_step, decode_trace, cache_data,
                            var_data, rewritten>>
        ELSE /\ state_datasets' = EmptyDict
             /\ is_loading' = TRUE
             /\ button_disabled' = TRUE
             /\ LoadCall(t, matched, selected_variable)
             /\ nan_values' = [nan_values EXCEPT ![t] = <<>>]
             /\ time_step' = [time_step EXCEPT ![t] = NoStep]
             /\ UNCHANGED <<notification, cache_enabled, cache, recentKeys,
                            cache_data, rewritten>>

\* a task that is not running on_compare_click: the lowest one is taken for
\* the next coroutine
FreeTask(t) ==
    /\ pc[t] = "idle"
    /\ \A u \in Tasks : u < t => pc[u] # "idle"

\* the user clicks the enabled compare button of the loaded page; the click
\* handler creates the task that runs on_compare_click
Click(t) ==
    /\ FreeTask(t)
    /\ ~onload_pending
    /\ ~button_disabled
    /\ CompareBegin(t)
    /\ UNCHANGED <<selected_variable, selected_keys, onload_pending, sliderVars>>
    /\ UNCHANGED <<indexVars, parseVars, aggVars>>

\* the page has loaded: schedule_auto_load runs auto_load_defaults, which
\* awaits on_compare_click when app.defaults.auto_load is set and a variable,
\* models and experiments are selected
AutoLoad(t) ==
    /\ FreeTask(t)
    /\ onload_pending
    /\ onload_pending' = FALSE
    /\ \E auto_load \in BOOLEAN :
          IF auto_load /\ selected_keys # {}
          THEN CompareBegin(t)
          ELSE UNCHANGED <<loaderVars, is_loading, button_disabled, state_datasets,
                           notification>>
    /\ UNCHANGED <<selected_variable, selected_keys, sliderVars>>
    /\ UNCHANGED <<indexVars, parseVars, aggVars>>

\* the user changes the variable, the models or the experiments in the
\* sidebar; the watcher update_info_box then sets the compare button
SelectionChange ==
    /\ ~onload_pending
    /\ \E var \in Variables, keys \in SUBSET DisplayKeys :
          /\ <<var, keys>> # <<selected_variable, selected_keys>>
          /\ selected_variable' = var
          /\ selected_keys' = keys
          /\ button_disabled' = update_info_box(var, keys)
    /\ UNCHANGED <<loaderVars, is_loading, state_datasets, notification, onload_pending,
                   sliderVars>>
    /\ UNCHANGED <<indexVars, parseVars, aggVars>>

(***************************************************************************)
(* ismip6_index.py: strings.  A Python str is a sequence of one-character  *)
(* strings; characters compare by code point.                              *)
(***************************************************************************)
Upper == <<"A","B","C","D","E","F","G","H","I","J","K","L","M",
           "N","O","P","Q","R","S","T","U","V","W","X","Y","Z">>

Lower == <<"a","b","c","d","e","f","g","h","i","j","k","l","m",
           "n","o","p","q","r","s","t","u","v","w","x","y","z">>

Digits == <<"0","1","2","3","4","5","6","7","8","9">>

\* the characters of the store's paths, in code point order
Ascii == <<"-", ".", "/">> \o Digits \o <<":">> \o Upper \o <<"_">> \o Lower

Ord(c) == CHOOSE i \in 1..Len(Ascii) : Ascii[i] = c

\* str.islower() on one character
IsLower(c) == c \in Range(Lower)

\* the character classes [A-Z], [^/] and [^_] of the pattern
ClsUpper == Range(Upper)

ClsNotSlash == Range(Ascii) \ {"/"}

ClsNotUnderscore == Range(Ascii) \ {"_"}

\* s[i:] and s[:i] of Python, for 0 <= i <= len(s)
Drop(s, i) == SubSeq(s, i + 1, Len(s))

Take(s, i) == SubSeq(s, 1, i)

\* s.startswith(p), s.endswith(p), p in s
StartsWith(s, p) == Len(p) <= Len(s) /\ Take(s, Len(p)) = p

EndsWith(s, p) == Len(p) <= Len(s) /\ Drop(s, Len(s) - Len(p)) = p

Contains(s, p) == \E i \in 0..(Len(s) - Len(p)) : StartsWith(Drop(s, i), p)

\* a < b and a <= b on str
RECURSIVE StrLess(_, _)
StrLess(a, b) ==
    IF b = <<>> THEN FALSE
    ELSE IF a = <<>> THEN TRUE
    ELSE IF Head(a) = Head(b) THEN StrLess(Tail(a), Tail(b))
    ELSE Ord(Head(a)) < Ord(Head(b))

\* the length of the longest prefix of s made of characters of the class cls
RECURSIVE Span(_, _)
Span(s, cls) ==
    IF s # <<>> /\ Head(s) \in cls THEN 1 + Span(Tail(s), cls) ELSE 0

\* path components joined by "/"
Slash(a, b) == a \o <<"/">> \o b

(***************************************************************************)
(* ismip6_index.py: parse_ismip6_path.                                     *)
(***************************************************************************)
\* the None that parse_ismip6_path returns for a path that does not match
None == [matched |-> FALSE]

\* the literal head of the pattern, "ismip6/Projection-"
PatternHead == <<"i","s","m","i","p","6","/","P","r","o","j","e","c","t","i","o","n","-">>

DotNc == <<".","n","c">>

\* (mutant) the prefix is taken off whatever follows it
FixVariableAlways(token, experiment) ==
    IF StartsWith(token, experiment) THEN Drop(token, Len(experiment)) ELSE token

\* the experiment prefix of the UCIJPL files is taken off the variable
FixVariable(token, experiment) ==
    IF StartsWith(token, experiment)
    THEN LET corrected_variable == Drop(token, Len(experiment))
         IN  IF corrected_variable # <<>> /\ IsLower(corrected_variable[1])
             THEN corrected_variable
             ELSE token
    ELSE token

\* one group of the pattern that is followed by "/": the run of n characters
\* of the class at the head of text, when it is not empty and "/" follows it.
\* The group cannot hold a "/", so no shorter run matches.
GroupAt(text, n) ==
    IF n >= 1 /\ n < Len(text) /\ text[n + 1] = "/"
    THEN [ok |-> TRUE, value |-> Take(text, n), rest |-> Drop(text, n + 1)]
    ELSE [ok |-> FALSE, value |-> <<>>, rest |-> <<>>]

Group(text, cls) == GroupAt(text, Span(text, cls))

\* the groups ([A-Z]+)/([^/]+)/([^/]+)/([^/]+)/ matched one after another
RECURSIVE MatchDirs(_, _, _)
RECURSIVE MatchRest(_, _, _)
MatchDirs(text, classes, groups) ==
    IF classes = <<>> THEN [ok |-> TRUE, groups |-> groups, rest |-> text]
    ELSE MatchRest(Group(text, Head(classes)), Tail(classes), groups)

MatchRest(group, classes, groups) ==
    IF group.ok THEN MatchDirs(group.rest, classes, Append(groups, group.value))
    ELSE [ok |-> FALSE, groups |-> groups, rest |-> <<>>]

\* the tail ([^_]+).*\.nc$ on the text after the experiment's "/": the last
\* group is greedy, n characters at most, and leaves ".nc" behind
MatchFile(text, n) ==
    IF EndsWith(text, DotNc) /\ n >= 1 /\ Len(text) - Len(DotNc) >= 1
    THEN [ok |-> TRUE,
          value |-> Take(text, IF n <= Len(text) - Len(DotNc)
                               THEN n ELSE Len(text) - Len(DotNc))]
    ELSE [ok |-> FALSE, value |-> <<>>]

\* (mutant) a url without its scheme
MatchRecordNoScheme(gcs_path, groups, file) ==
    IF file.ok
    THEN [variable    |-> FixVariable(file.value, groups[4]),
          ice_sheet   |-> groups[1],
          institution |-> groups[2],
          model_name  |-> groups[3],
          experiment  |-> groups[4],
          url         |-> gcs_path]
    ELSE None

\* the dict built from match.groups()
MatchRecord(gcs_path, groups, file) ==
    IF file.ok
    THEN [variable    |-> FixVariable(file.value, groups[4]),
          ice_sheet   |-> groups[1],
          institution |-> groups[2],
          model_name  |-> groups[3],
          experiment  |-> groups[4],
          url         |-> <<"g","s",":","/","/">> \o gcs_path]
    ELSE None

MatchTail(gcs_path, dirs) ==
    IF dirs.ok
    THEN MatchRecord(gcs_path, dirs.groups,
                     MatchFile(dirs.rest, Span(dirs.rest, ClsNotUnderscore)))
    ELSE None

\* re.match of the pattern
\*   ismip6/Projection-([A-Z]+)/([^/]+)/([^/]+)/([^/]+)/([^_]+).*\.nc$
\* on gcs_path
parse_ismip6_path(gcs_path) ==
    IF StartsWith(gcs_path, PatternHead)
    THEN MatchTail(gcs_path,
                   MatchDirs(Drop(gcs_path, Len(PatternHead)),
                             <<ClsUpper, ClsNotSlash, ClsNotSlash, ClsNotSlash>>,
                             <<>>))
    ELSE None

(***************************************************************************)
(* The paths parse_ismip6_path is called with: a root, "Projection-" and a *)
(* sheet name, some directory levels and a file name, joined by "/".       *)
(***************************************************************************)
Roots == {<<"i","s","m","i","p","6">>,
          <<"g","s",":","/","/","i","s","m","i","p","6">>}

Sheets == {<<"A","I","S">>, <<"A","i","s">>, <<>>}

Segments == {<<"A","W","I">>, <<"e","x","p">>, <<>>}

Filenames == {<<"l","i","t","h","k","_","a",".","n","c">>,
              <<"e","x","p","a","b","_","x",".","n","c">>,
              <<"e","x","p","A","b","_","x",".","n","c">>,
              <<"e","x","p","1","a","_","x",".","n","c">>,
              <<"e","x","p","_","x",".","n","c">>,
              <<"e","x","p",".","n","c">>,
              <<"_","t","m","p",".","n","c">>,
              <<"a",".","t","x","t">>,
              <<".","n","c">>}

PathParts ==
    [root : Roots, sheet : Sheets,
     dirs : UNION {[1..n -> Segments] : n \in 2..MaxLevels},
     filename : Filenames]

\* every directory level followed by "/"
RECURSIVE JoinDirs(_)
JoinDirs(dirs) ==
    IF dirs = <<>> THEN <<>>
    ELSE Head(dirs) \o <<"/">> \o JoinDirs(Tail(dirs))

\* the path made of the parts p
PathOf(p) ==
    p.root \o <<"/","P","r","o","j","e","c","t","i","o","n","-">> \o p.sheet
           \o <<"/">> \o JoinDirs(p.dirs) \o p.filename

\* parse_ismip6_path has not been called
NotCalled == [called |-> FALSE]

\* parse_ismip6_path(gcs_path) is called and returns
ParsePath ==
    /\ parse_result = NotCalled
    /\ parse_result' = parse_ismip6_path(path)
    /\ UNCHANGED <<path_parts, path>>
    /\ UNCHANGED <<loaderVars, appVars, indexVars, aggVars>>

(***************************************************************************)
(* The remote store the crawl walks: a bucket with two projections, three  *)
(* experiment directories and, among the files, one of the UCIJPL kind,    *)
(* one the parser rejects, one that is not NetCDF and one listed without a *)
(* size.                                                                   *)
(***************************************************************************)
Bucket == <<"i","s","m","i","p","6">>

Readme == Slash(Bucket, <<"R","E","A","D","M","E",".","m","d">>)

ProjectionAIS == Slash(Bucket, <<"P","r","o","j","e","c","t","i","o","n","-","A","I","S">>)

ProjectionGIS == Slash(Bucket, <<"P","r","o","j","e","c","t","i","o","n","-","G","I","S">>)

AisAwi == Slash(ProjectionAIS, <<"A","W","I">>)

AisJpl == Slash(ProjectionAIS, <<"U","C","I","J","P","L">>)

GisAwi == Slash(ProjectionGIS, <<"A","W","I">>)

AisAwiPism == Slash(AisAwi, <<"P","I","S","M","1">>)

AisJplIssm == Slash(AisJpl, <<"I","S","S","M">>)

GisAwiIssm == Slash(GisAwi, <<"I","S","S","M">>)

AisAwiPismExp05 == Slash(AisAwiPism, <<"e","x","p","0","5">>)

AisJplIssmExp13 == Slash(AisJplIssm, <<"e","x","p","1","3">>)

GisAwiIssmCtrl == Slash(GisAwiIssm, <<"c","t","r","l">>)

\* every directory the crawl can list
Dirs == {Bucket, ProjectionAIS, ProjectionGIS, AisAwi, AisJpl, GisAwi,
         AisAwiPism, AisJplIssm, GisAwiIssm,
         AisAwiPismExp05, AisJplIssmExp13, GisAwiIssmCtrl}

\* fs.ls(d, detail=False) of a directory above the experiments
Listing(d) ==
    CASE d = Bucket        -> <<ProjectionGIS, Readme, ProjectionAIS>>
      [] d = ProjectionAIS -> <<AisJpl, AisAwi>>
      [] d = ProjectionGIS -> <<GisAwi>>
      [] d = AisAwi        -> <<AisAwiPism>>
      [] d = AisJpl        -> <<AisJplIssm>>
      [] d = GisAwi        -> <<GisAwiIssm>>
      [] d = AisAwiPism    -> <<AisAwiPismExp05>>
      [] d = AisJplIssm    -> <<AisJplIssmExp13>>
      [] d = GisAwiIssm    -> <<GisAwiIssmCtrl>>
      [] OTHER             -> <<>>

\* fs.ls(d, detail=True) of an experiment directory
Details(d) ==
    CASE d = AisAwiPismExp05 ->
            <<[name |-> Slash(d, <<"n","o","t","e","s",".","t","x","t">>), size |-> 1],
              [name |-> Slash(d, <<"l","i","t","h","k","_","a",".","n","c">>), size |-> 10],
              [name |-> Slash(d, <<"_","t","m","p",".","n","c">>), size |-> 2]>>
      [] d = AisJplIssmExp13 ->
            <<[name |-> Slash(d, <<"e","x","p","1","3","a","c","a","b","f","_","a",".","n","c">>)]>>
      [] d = GisAwiIssmCtrl ->
            <<[name |-> Slash(d, <<"l","i","t","h","k","_","g",".","n","c">>), size |-> 30]>>
      [] OTHER -> <<>>

(***************************************************************************)
(* ismip6_index.py: build_file_index and get_file_index.  failing is the   *)
(* set of directories whose fs.ls raises during the call.  A scan gives    *)
(* the files it collected, the directories whose listing raised (each is   *)
(* printed by the except clause that caught it) and whether it raised.     *)
(***************************************************************************)
Collected(files) == [raised |-> FALSE, files |-> files, failed |-> {}]

Skipped(dir) == [raised |-> FALSE, files |-> <<>>, failed |-> {dir}]

Aborted(dir) == [raised |-> TRUE, files |-> <<>>, failed |-> {dir}]

\* one iteration of a loop followed by the rest of the loop
AndThen(first, rest) ==
    IF first.raised THEN first
    ELSE [raised |-> rest.raised,
          files  |-> first.files \o rest.files,
          failed |-> first.failed \cup rest.failed]

\* the innermost try: the .nc files of one experiment directory
ScanExperiment(exp_dir, failing) ==
    IF exp_dir \in failing THEN Skipped(exp_dir)
    ELSE Collected(SelectSeq(Details(exp_dir), LAMBDA f : EndsWith(f.name, DotNc)))

RECURSIVE ScanExperiments(_, _)
ScanExperiments(experiments, failing) ==
    IF experiments = <<>> THEN Collected(<<>>)
    ELSE AndThen(ScanExperiment(Head(experiments), failing),
                 ScanExperiments(Tail(experiments), failing))

\* the try around the listing of one model directory
ScanModel(model_dir, failing) ==
    IF model_dir \in failing THEN Skipped(model_dir)
    ELSE ScanExperiments(Listing(model_dir), failing)

RECURSIVE ScanModels(_, _)
ScanModels(models, failing) ==
    IF models = <<>> THEN Collected(<<>>)
    ELSE AndThen(ScanModel(Head(models), failing),
                 ScanModels(Tail(models), failing))

\* the try around the listing of one institution directory
ScanInstitution(inst_dir, failing) ==
    IF inst_dir \in failing THEN Skipped(inst_dir)
    ELSE ScanModels(Listing(inst_dir), failing)

RECURSIVE ScanInstitutions(_, _)
ScanInstitutions(institutions, failing) ==
    IF institutions = <<>> THEN Collected(<<>>)
    ELSE AndThen(ScanInstitution(Head(institutions), failing),
                 ScanInstitutions(Tail(institutions), failing))

\* the body of the loop over the bucket's entries: the institutions of a
\* projection directory are listed inside the outer try only, whose except
\* clause raises again
ScanProjection(proj_dir, failing) ==
    IF ~EndsWith(proj_dir, <<"/">>) /\ Contains(proj_dir, <<"P","r","o","j","e","c","t","i","o","n","-">>)
    THEN IF proj_dir \in failing
         THEN Aborted(proj_dir)
         ELSE ScanInstitutions(Listing(proj_dir), failing)
    ELSE Collected(<<>>)

RECURSIVE ScanProjections(_, _)
ScanProjections(projection_dirs, failing) ==
    IF projection_dirs = <<>> THEN Collected(<<>>)
    ELSE AndThen(ScanProjection(Head(projection_dirs), failing),
                 ScanProjections(Tail(projection_dirs), failing))

\* the outer try: the walk of the bucket
ScanBucket(failing) ==
    IF Bucket \in failing THEN Aborted(Bucket)
    ELSE ScanProjections(Listing(Bucket), failing)

\* file_info.get('size', 0)
FileSize(file_info) ==
    IF "size" \in DOMAIN file_info THEN file_info.size ELSE 0

\* the body of the loop that parses all_files: the record of one file, if
\* its path parses
ParsedRecord(file_info, parsed) ==
    IF parsed # None
    THEN <<parsed @@ [size_bytes |-> FileSize(file_info)]>>
    ELSE <<>>

\* the loop that parses all_files into records
RECURSIVE ParseAll(_)
ParseAll(all_files) ==
    IF all_files = <<>> THEN <<>>
    ELSE ParsedRecord(Head(all_files), parse_ismip6_path(Head(all_files).name))
            \o ParseAll(Tail(all_files))

\* the columns the catalog is sorted by
SortKey(r) == <<r.ice_sheet, r.institution, r.model_name, r.experiment, r.variable>>

\* the order of two rows on the sort columns, column after column
RECURSIVE KeyLess(_, _)
KeyLess(a, b) ==
    IF a = <<>> THEN FALSE
    ELSE IF Head(a) = Head(b) THEN KeyLess(Tail(a), Tail(b))
    ELSE StrLess(Head(a), Head(b))

\* one row put in its place among sorted rows, after the rows equal to it
RECURSIVE InsertRow(_, _)
InsertRow(rows, r) ==
    IF rows = <<>> THEN <<r>>
    ELSE IF KeyLess(SortKey(r), SortKey(Head(rows)))
         THEN <<r>> \o rows
         ELSE <<Head(rows)>> \o InsertRow(Tail(rows), r)

\* (mutant) the records are left in the order in which they were collected
sort_values_unsorted(records) == records

\* df.sort_values([...]).reset_index(drop=True)
RECURSIVE sort_values(_)
sort_values(records) ==
    IF records = <<>> THEN <<>>
    ELSE InsertRow(sort_values(Take(records, Len(records) - 1)),
                   records[Len(records)])

\* the columns of the catalog
Columns == {"variable", "ice_sheet", "institution", "model_name", "experiment",
            "url", "size_bytes"}

\* df.to_parquet(cache_path, index=False): the table is stored column by
\* column, without the index
to_parquet(df) ==
    [rows |-> Len(df),
     columns |-> [c \in Columns |-> [i \in 1..Len(df) |-> df[i][c]]]]

\* (mutant) a read that loses the last row of the table
read_parquet_short(file) ==
    [i \in 1..(file.content.rows - 1) |->
        [c \in Columns |-> file.content.columns[c][i]]]

\* pd.read_parquet(cache_path): the rows of the stored table, in its order,
\* under a fresh range index
read_parquet(file) ==
    [i \in 1..file.content.rows |->
        [c \in Columns |-> file.content.columns[c][i]]]

\* what a call finds at, and leaves at, cache_path
NoFile == [state |-> "absent", content |-> to_parquet(<<>>)]

CorruptFile == [state |-> "corrupt", content |-> to_parquet(<<>>)]

WrittenFile(df) == [state |-> "written", content |-> to_parquet(df)]

\* what can happen when the catalog is saved: it is written, mkdir raises,
\* to_parquet raises before it wrote anything, to_parquet raises half way
Persist == {"ok", "mkdir_error", "write_error", "write_partial"}

\* how a call ends: what it returns or raises, the file it leaves at
\* cache_path, the listings that raised on its way, what became of the
\* save ("none" when the call did not get that far) and the .nc files the
\* walk collected
Returned(df, file, crawled, failed, save, all_files) ==
    [status |-> "returned", error |-> "none", catalog |-> df, file |-> file,
     crawled |-> crawled, failed |-> failed, save |-> save,
     all_files |-> all_files]

Raised(error, file, crawled, failed, save, all_files) ==
    [status |-> "raised", error |-> error, catalog |-> <<>>, file |-> file,
     crawled |-> crawled, failed |-> failed, save |-> save,
     all_files |-> all_files]

\* (mutant) the cache file is never looked at
UseCacheNever(force_rebuild, file) == FALSE

\* not force_rebuild and cache_path.exists()
UseCache(force_rebuild, file) == ~force_rebuild /\ file.state # "absent"

\* the sets of listings that fail during one call
FailSets == {f \in SUBSET Dirs : Cardinality(f) <= MaxListFailures}

\* the crawl of build_file_index, from the walk of the bucket to the sorted
\* DataFrame
CrawlFrame(scan, records) ==
    [raised |-> scan.raised, failed |-> scan.failed, files |-> scan.files,
     records |-> records, df |-> sort_values(records)]

CrawlRecords(scan) == CrawlFrame(scan, ParseAll(scan.files))

Crawl(failing) == CrawlRecords(ScanBucket(failing))

\* the crawl of every set of failing listings, worked out once
RECURSIVE CrawlsOf(_)
CrawlsOf(sets) ==
    IF sets = {} THEN <<>>
    ELSE LET failing == CHOOSE f \in sets : TRUE
         IN  (failing :> Crawl(failing)) @@ CrawlsOf(sets \ {failing})

Crawls == CrawlsOf(FailSets)

\* What the remote store holds when it is crawled: every file of the
\* archive, or only what an interrupted upload left behind (the temporary
\* file, no data file).
Stores == {"archive", "leftover"}

Tmp == <<"_","t","m","p",".","n","c">>

\* the files a walk collects from the store
InStore(store, scan) ==
    IF store = "archive" THEN scan
    ELSE [scan EXCEPT !.files = SelectSeq(@, LAMBDA f : EndsWith(f.name, Tmp))]

\* the crawl of the leftover store, every listing succeeding
LeftoverCrawl == CrawlRecords(InStore("leftover", ScanBucket({})))

\* the store and the failing listings a call can meet
Conditions ==
    {[store |-> "archive", failing |-> f] : f \in FailSets}
        \cup {[store |-> "leftover", failing |-> {}]}

\* the crawl of a call
CrawlIn(cond) ==
    IF cond.store = "archive" THEN Crawls[cond.failing] ELSE LeftoverCrawl

\* build_file_index after the fast path: the end of the crawl and the save.
\* An empty list of records makes a DataFrame without columns, on which
\* sort_values raises KeyError.
BuildFrom(file, crawl, persist) ==
    IF crawl.raised
    THEN Raised("listing", file, TRUE, crawl.failed, "none", crawl.files)
    ELSE IF crawl.records = <<>>
    THEN Raised("KeyError", file, TRUE, crawl.failed, "none", crawl.files)
    ELSE IF persist = "mkdir_error"
    THEN Raised("mkdir", file, TRUE, crawl.failed, persist, crawl.files)
    ELSE IF persist = "write_error"
    THEN Raised("to_parquet", file, TRUE, crawl.failed, persist, crawl.files)
    ELSE IF persist = "write_partial"
    THEN Raised("to_parquet", CorruptFile, TRUE, crawl.failed, persist, crawl.files)
    ELSE Returned(crawl.df, WrittenFile(crawl.df), TRUE, crawl.failed, persist, crawl.files)

\* build_file_index(cache_path=..., force_rebuild=...) with the file found at
\* cache_path, the store and the listings that fail, and the fate of the save
build_file_index(file, force_rebuild, cond, persist) ==
    IF UseCache(force_rebuild, file)
    THEN IF file.state = "corrupt"
         THEN Raised("read_parquet", file, FALSE, {}, "none", <<>>)
         ELSE Returned(read_parquet(file), file, FALSE, {}, "none", <<>>)
    ELSE BuildFrom(file, CrawlIn(cond), persist)

\* the caller has the result of its call
CallEnds(force_rebuild, out) ==
    /\ cache_file' = out.file
    /\ index_result' = [status |-> out.status, error |-> out.error,
                        catalog |-> out.catalog]
    /\ last_call' = [force_rebuild |-> force_rebuild,
                     before  |-> cache_file.state,
                     built_before |-> builds > 0,
                     crawled |-> out.crawled,
                     failed  |-> out.failed,
                     save    |-> out.save,
                     all_files |-> out.all_files]
    /\ forced_calls' = forced_calls + (IF force_rebuild THEN 1 ELSE 0)
    /\ crawls' = crawls + (IF out.crawled THEN 1 ELSE 0)
    /\ faulty_crawls' = faulty_crawls +
          (IF out.failed # {} \/ out.save \in {"write_error", "write_partial"}
           THEN 1 ELSE 0)
    /\ builds' = builds + (IF out.crawled /\ out.status = "returned" THEN 1 ELSE 0)

\* get_file_index(cache_path, force_rebuild): one call, start to end
get_file_index ==
    /\ calls < MaxCalls
    /\ \E force_rebuild \in BOOLEAN, cond \in Conditions, persist \in Persist :
          CallEnds(force_rebuild,
                   build_file_index(cache_file, force_rebuild, cond, persist))
    /\ calls' = calls + 1
    /\ UNCHANGED <<loaderVars, appVars, parseVars, aggVars>>

(***************************************************************************)
(* The aggregator: calculate_global_ranges and get_coordinate_ranges.      *)
(***************************************************************************)
\* An array of the datasets dict: its values (flattened), whether they can
\* be read (data.values of an array that was not loaded reads the remote
\* file and can raise), its shape and its x and y coordinate vectors
\* (coords is the set of the coordinates it has).
Array(values, readable, shape, coords, x, y) ==
    [values |-> values, readable |-> readable, shape |-> shape,
     coords |-> coords, x |-> x, y |-> y]

\* the arrays the aggregator is given: values that cross zero, start near
\* zero, end near zero or lie away from it, values none of which is finite,
\* an array that cannot be read, a single value; shapes (y, x), (time, y, x)
\* and (time); with both coordinate vectors, one of them or none
PlotArrays ==
    {Array(<<Float(-3), Float(2)>>, TRUE, <<1, 2>>, {"x", "y"}, <<30, 10>>, <<5>>),
     Array(<<Float(0), Float(2)>>, TRUE, <<1, 2, 1>>, {}, <<>>, <<>>),
     Array(<<Float(-3), Float(0)>>, TRUE, <<2, 1>>, {"x"}, <<7>>, <<>>),
     Array(<<Float(2), Float(5)>>, TRUE, <<2, 1>>, {"x", "y"}, <<-4>>, <<8, -8>>),
     Array(<<NaN, Inf>>, TRUE, <<2>>, {}, <<>>, <<>>),
     Array(<<Float(2), Float(5)>>, FALSE, <<1, 2>>, {"x", "y"}, <<1, 2>>, <<3>>),
     Array(<<Float(2)>>, TRUE, <<1, 1>>, {}, <<>>, <<>>)}

\* the (percentile_low, percentile_high) a caller passes: the defaults, the
\* whole range of the values, or a low percentile above the high one
Percentiles == {<<5, 95>>, <<0, 100>>, <<95, 5>>}

\* np.isfinite
IsFinite(x) == ~x.nan /\ ~x.inf

\* (mutant) the values of an array that cannot be read are sampled all the same
SampledUnguarded(data) ==
    [n \in DOMAIN SelectSeq(data.values, IsFinite) |->
        SelectSeq(data.values, IsFinite)[n].v]

\* The body of the try for one dataset: the finite values of the array; an
\* exception is caught, a warning printed and nothing is added.  (An array
\* of more than 1,000,000 finite values is sampled at random; the arrays
\* here are far smaller.)
Sampled(data) ==
    IF data.readable
    THEN [n \in DOMAIN SelectSeq(data.values, IsFinite) |->
             SelectSeq(data.values, IsFinite)[n].v]
    ELSE <<>>

\* all_values after the loop over datasets.items()
RECURSIVE AllValues(_)
AllValues(ds) ==
    IF ds = <<>> THEN <<>> ELSE Sampled(Head(ds)) \o AllValues(Tail(ds))

\* one number put in its place among sorted numbers
RECURSIVE InsertNumber(_, _)
InsertNumber(sorted, v) ==
    IF sorted = <<>> THEN <<v>>
    ELSE IF v <= Head(sorted) THEN <<v>> \o sorted
    ELSE <<Head(sorted)>> \o InsertNumber(Tail(sorted), v)

RECURSIVE SortNumbers(_)
SortNumbers(values) ==
    IF values = <<>> THEN <<>>
    ELSE InsertNumber(SortNumbers(Tail(values)), Head(values))

\* np.percentile(sorted, q) with linear interpolation, in hundredths: the
\* value at the virtual index (n - 1) * q / 100 between its two neighbours
PercentileOfSorted(sorted, q) ==
    LET pos == (Len(sorted) - 1) * q
        lo == (pos \div 100) + 1
        hi == IF lo < Len(sorted) THEN lo + 1 ELSE lo
        f == pos % 100
    IN  sorted[lo] * (100 - f) + sorted[hi] * f

percentile(values, q) == PercentileOfSorted(SortNumbers(values), q)

\* abs, np.abs
Abs(v) == IF v < 0 THEN 0 - v ELSE v

\* (mutant) the bound of the larger magnitude, with its sign
AbsMaxSigned(vmin, vmax) == IF Abs(vmin) >= Abs(vmax) THEN vmin ELSE vmax

\* max(abs(vmin), abs(vmax))
AbsMax(vmin, vmax) == IF Abs(vmin) >= Abs(vmax) THEN Abs(vmin) ELSE Abs(vmax)

\* what calculate_global_ranges returns: no range, or vmin and vmax (in
\* hundredths) and the colormap; the percentile values it started from are
\* kept with it
NoRange ==
    [called |-> TRUE, numeric |-> FALSE, vmin |-> 0, vmax |-> 0,
     cmap |-> "viridis", percentiles |-> <<>>]

Range3(vmin, vmax, cmap, p_low, p_high) ==
    [called |-> TRUE, numeric |-> TRUE, vmin |-> vmin, vmax |-> vmax,
     cmap |-> cmap, percentiles |-> <<p_low, p_high>>]

\* (mutant) a range that crosses zero is returned as it is
ChooseColormapAsIs(vmin, vmax) ==
    IF vmin < 0 /\ vmax > 0
    THEN Range3(vmin, vmax, "RdBu_r", vmin, vmax)
    ELSE IF Abs(vmax) > Abs(vmin) /\ Abs(vmin) < 100
    THEN Range3(0, vmax, "Blues", vmin, vmax)
    ELSE IF Abs(vmin) > Abs(vmax) /\ Abs(vmax) < 100
    THEN Range3(vmin, 0, "Blues_r", vmin, vmax)
    ELSE Range3(vmin, vmax, "viridis", vmin, vmax)

\* the choice of the colormap and the adjusted range, from the percentile
\* values vmin and vmax (in hundredths: 1 is 100)
ChooseColormap(vmin, vmax) ==
    IF vmin < 0 /\ vmax > 0
    THEN Range3(0 - AbsMax(vmin, vmax), AbsMax(vmin, vmax), "RdBu_r", vmin, vmax)
    ELSE IF Abs(vmax) > Abs(vmin) /\ Abs(vmin) < 100
    THEN Range3(0, vmax, "Blues", vmin, vmax)
    ELSE IF Abs(vmin) > Abs(vmax) /\ Abs(vmax) < 100
    THEN Range3(vmin, 0, "Blues_r", vmin, vmax)
    ELSE Range3(vmin, vmax, "viridis", vmin, vmax)

\* the rest of calculate_global_ranges once all_values is collected
RangesOf(all_values, percentile_low, percentile_high) ==
    IF Len(all_values) = 0 THEN NoRange
    ELSE ChooseColormap(percentile(all_values, percentile_low),
                        percentile(all_values, percentile_high))

calculate_global_ranges(ds, percentile_low, percentile_high) ==
    IF Len(ds) = 0 THEN NoRange
    ELSE RangesOf(AllValues(ds), percentile_low, percentile_high)

\* x_coords.min() and x_coords.max()
MinNumber(c) == CHOOSE v \in Range(c) : \A w \in Range(c) : v <= w

MaxNumber(c) == CHOOSE v \in Range(c) : \A w \in Range(c) : w <= v

\* what get_coordinate_ranges returns, or the ValueError of the unpacking
\* of shape[-2:] when the array has a single dimension
Ranges(x_range, y_range) ==
    [called |-> TRUE, status |-> "returned", x_range |-> x_range,
     y_range |-> y_range]

RangesError ==
    [called |-> TRUE, status |-> "raised", x_range |-> <<>>, y_range |-> <<>>]

\* the ranges of one array: of its coordinate vectors, or of its shape
RangesOfArray(first_data) ==
    IF "x" \in first_data.coords /\ "y" \in first_data.coords
    THEN Ranges(<<MinNumber(first_data.x), MaxNumber(first_data.x)>>,
                <<MinNumber(first_data.y), MaxNumber(first_data.y)>>)
    ELSE IF Len(first_data.shape) < 2 THEN RangesError
    ELSE Ranges(<<0, first_data.shape[Len(first_data.shape)]>>,
                <<0, first_data.shape[Len(first_data.shape) - 1]>>)

\* (mutant) the last dataset is the reference
get_coordinate_ranges_last(ds) ==
    IF Len(ds) = 0 THEN Ranges(<<0, 1>>, <<0, 1>>)
    ELSE RangesOfArray(ds[Len(ds)])

get_coordinate_ranges(ds) ==
    IF Len(ds) = 0 THEN Ranges(<<0, 1>>, <<0, 1>>)
    ELSE RangesOfArray(ds[1])

\* a caller asks for the colour range of its datasets
GlobalRanges ==
    /\ global_ranges = NotCalled
    /\ global_ranges' = calculate_global_ranges(agg_datasets, agg_percentiles[1],
                                                agg_percentiles[2])
    /\ UNCHANGED <<agg_datasets, agg_percentiles, coordinate_ranges>>
    /\ UNCHANGED <<loaderVars, appVars, indexVars, parseVars>>

\* a caller asks for the spatial range of its datasets
CoordinateRanges ==
    /\ coordinate_ranges = NotCalled
    /\ coordinate_ranges' = get_coordinate_ranges(agg_datasets)
    /\ UNCHANGED <<agg_datasets, agg_percentiles, global_ranges>>
    /\ UNCHANGED <<loaderVars, appVars, indexVars, parseVars>>

(***************************************************************************)
(* Initial states and specifications.                                      *)
(***************************************************************************)
InitLoader ==
    /\ cache_enabled \in BOOLEAN
    /\ cache = <<>>
    /\ pc = [t \in Callers |-> "idle"]
    /\ file_list = [t \in Callers |-> <<>>]
    /\ variable = [t \in Callers |-> "acabf"]
    /\ idx = [t \in Callers |-> 0]
    /\ datasets = [t \in Callers |-> EmptyDict]
    /\ progress = [t \in Callers |-> <<>>]
    /\ result = [t \in Callers |-> "none"]
    /\ all_time_coords = [t \in Callers |-> <<>>]
    /\ time_range = [t \in Callers |-> NoTimeRange]
    /\ okFiles = [t \in Callers |-> {}]
    /\ started = [t \in Callers |-> <<>>]
    /\ recentKeys = <<>>
    /\ nan_values = [t \in Callers |-> <<>>]
    /\ time_step = [t \in Callers |-> NoStep]
    /\ decode_trace = [t \in Callers |-> <<>>]
    /\ cache_data = EmptyDict
    /\ var_data = [t \in Callers |-> NoArray]
    /\ rewritten = {}

\* the defaults of the time slider parameters of DataSelectionState
InitSlider ==
    /\ time_slider_year = 2015
    /\ time_range_min = 2015
    /\ time_range_max = 2100
    /\ time_slider_visible = FALSE

\* create_app: the default selection of the configuration is applied and
\* update_info_box has run; the page has not loaded yet
InitApp ==
    /\ selected_variable \in Variables
    /\ selected_keys \in SUBSET DisplayKeys
    /\ is_loading = FALSE
    /\ button_disabled = update_info_box(selected_variable, selected_keys)
    /\ state_datasets = EmptyDict
    /\ notification = "none"
    /\ onload_pending = TRUE
    /\ InitSlider

\* the state in which only the loader is exercised
InitNoApp ==
    /\ selected_variable = "acabf"
    /\ selected_keys = {}
    /\ is_loading = FALSE
    /\ button_disabled = TRUE
    /\ state_datasets = EmptyDict
    /\ notification = "none"
    /\ onload_pending = FALSE
    /\ InitSlider

\* no get_file_index call yet, and at cache_path the file found there
InitCalls(file) ==
    /\ cache_file = file
    /\ index_result = [status |-> "none", error |-> "none", catalog |-> <<>>]
    /\ last_call = [force_rebuild |-> FALSE, before |-> "absent",
                    built_before |-> FALSE, crawled |-> FALSE, failed |-> {},
                    save |-> "none", all_files |-> <<>>]
    /\ calls = 0
    /\ forced_calls = 0
    /\ crawls = 0
    /\ faulty_crawls = 0
    /\ builds = 0

\* the state in which the catalog is not asked for
InitIndex == InitCalls(NoFile)

\* at cache_path there is no file, or the file that an earlier run of the
\* program saved
InitCatalog ==
    \E file \in {NoFile, WrittenFile(Crawls[{}].df)} : InitCalls(file)

\* the state in which the parser is not exercised
InitNoParse ==
    /\ path_parts = [root |-> <<>>, sheet |-> <<>>, dirs |-> <<>>, filename |-> <<>>]
    /\ path = <<>>
    /\ parse_result = NotCalled

\* a path is about to be parsed
InitParse ==
    /\ path_parts \in PathParts
    /\ path = PathOf(path_parts)
    /\ parse_result = NotCalled

\* the state in which the aggregator is not used
InitNoAgg ==
    /\ agg_datasets = <<>>
    /\ agg_percentiles = <<5, 95>>
    /\ global_ranges = NotCalled
    /\ coordinate_ranges = NotCalled

\* the datasets and the percentiles the aggregator is called with
InitAgg ==
    /\ agg_datasets \in SeqsUpTo(PlotArrays, MaxDatasets)
    /\ agg_percentiles \in Percentiles
    /\ global_ranges = NotCalled
    /\ coordinate_ranges = NotCalled

Init == InitLoader /\ InitNoApp /\ InitIndex /\ InitNoParse /\ InitNoAgg

\* the aggregator applied to any datasets
InitRanges == InitLoader /\ InitNoApp /\ InitIndex /\ InitNoParse /\ InitAgg

NextRanges ==
    \/ GlobalRanges
    \/ CoordinateRanges

SpecRanges == InitRanges /\ [][NextRanges]_vars

InitParsing == InitLoader /\ InitNoApp /\ InitIndex /\ InitParse /\ InitNoAgg

\* parse_ismip6_path called on one path
NextParse == ParsePath

SpecParse == InitParsing /\ [][NextParse]_vars

\* one process calling get_file_index again and again
NextIndex == get_file_index

InitIndexing == InitLoader /\ InitNoApp /\ InitCatalog /\ InitNoParse /\ InitNoAgg

SpecIndex == InitIndexing /\ [][NextIndex]_vars

\* one caller awaiting one load_datasets_async call after another
NextLoad ==
    \/ Call
    \/ ThreadRun(Direct)
    \/ ThreadFinish(Direct)
    \/ Resume(Direct)

SpecLoad == Init /\ [][NextLoad]_vars

\* a call of the loader with any sentinel list and time step, and later
\* calls for the same files with other sentinel lists
NextArgs ==
    \/ CallWith
    \/ CallAgain
    \/ ThreadRun(Direct)
    \/ ThreadFinish(Direct)
    \/ Resume(Direct)

SpecArgs == Init /\ [][NextArgs]_vars

\* the comparison app: clicks, the onload callback and selection changes,
\* interleaved with the worker threads and the resumed coroutines
NextApp ==
    \/ SelectionChange
    \/ \E t \in Tasks :
          \/ Click(t)
          \/ AutoLoad(t)
          \/ ThreadRun(t)
          \/ ThreadFinish(t)
          \/ Resume(t)

InitCompare == InitLoader /\ InitApp /\ InitIndex /\ InitNoParse /\ InitNoAgg

SpecApp == InitCompare /\ [][NextApp]_vars

\* the comparison app with one compare at a time: every compare is run by
\* the first task, which is free again when the compare has ended
NextCompare ==
    \/ SelectionChange
    \/ Click(1)
    \/ AutoLoad(1)
    \/ ThreadRun(1)
    \/ ThreadFinish(1)
    \/ Resume(1)

SpecCompare == InitCompare /\ [][NextCompare]_vars

(***************************************************************************)
(* The claims.                                                             *)
(***************************************************************************)
Processing(t) == pc[t] \in {"queued", "fetching", "ready"}

\* C1: a file that fails to open or decode does not abort the batch:
\* load_datasets_async never raises, every file of the list is begun, and
\* the keys of the returned mapping are exactly the display keys of the files
\* that loaded successfully.
C1_PartialFailure ==
    /\ pc[Direct] # "raised"
    /\ pc[Direct] = "returned" =>
          /\ DOMAIN datasets[Direct] =
                {file_list[Direct][i + 1].key : i \in okFiles[Direct]}
          /\ started[Direct] = [j \in 1..Len(file_list[Direct]) |-> j - 1]

\* a call has returned in which the first file failed and a later one loaded
C1_Witness ==
    /\ pc[Direct] = "returned"
    /\ Len(file_list[Direct]) = MaxFiles
    /\ 0 \notin okFiles[Direct]
    /\ MaxFiles - 1 \in okFiles[Direct]
    /\ DOMAIN datasets[Direct] # {}

CacheBounded ==
    /\ Len(cache) <= CACHE_MAX_ITEMS
    /\ Cardinality(Range(cache)) = Len(cache)

HitAddsNoEntry ==
    \A t \in Callers :
        (pc[t] = "queued" /\ pc'[t] # "queued" /\ CacheKey(t) \in Range(cache))
            => (Len(cache') = Len(cache) /\ Range(cache') = Range(cache))

\* C2: in every reachable state the decode cache holds at most
\* CACHE_MAX_ITEMS entries and at most one entry per (url, variable) key, and
\* a request for a resident key adds no entry.
C2_CacheBounded == [](CacheBounded) /\ [][HitAddsNoEntry]_vars

\* a resident key was requested while the cache was full, after an eviction
C2_Witness ==
    /\ result[Direct] = "hit"
    /\ Len(cache) = CACHE_MAX_ITEMS
    /\ Len(recentKeys) = CACHE_MAX_ITEMS + 1

\* C3: once more than CACHE_MAX_ITEMS distinct keys have been loaded, exactly
\* CACHE_MAX_ITEMS entries are resident and they are the CACHE_MAX_ITEMS most
\* recently accessed keys, a cache hit counting as an access.
C3_LruEviction ==
    (cache_enabled /\ Len(recentKeys) = CACHE_MAX_ITEMS + 1) =>
        /\ Len(cache) = CACHE_MAX_ITEMS
        /\ Range(cache) = Range(LastN(recentKeys, CACHE_MAX_ITEMS))

\* a successful load has just evicted the least recently accessed key
C3_Witness ==
    /\ pc[Direct] = "ready"
    /\ result[Direct] = "ok"
    /\ Len(recentKeys) = CACHE_MAX_ITEMS + 1
    /\ recentKeys[1] \notin Range(cache)
    /\ cache[Len(cache)] = CacheKey(Direct)

\* C4: the percent values passed to the progress callback in one run never
\* decrease, and the last call of the run reports 100.
C4_ProgressMonotone ==
    LET p == progress[Direct]
    IN  /\ \A n \in 1..(Len(p) - 1) : PctLeq(p[n].pct, p[n + 1].pct)
        /\ pc[Direct] = "returned" =>
              /\ Len(p) > 0
              /\ p[Len(p)].pct.num = 100 * p[Len(p)].pct.den

\* a run has ended that reported a decode failure and a missing variable
C4_Witness ==
    /\ pc[Direct] = "returned"
    /\ \E n \in DOMAIN progress[Direct] : progress[Direct][n].kind = "Error"
    /\ \E n \in DOMAIN progress[Direct] : progress[Direct][n].kind = "Warning"

\* C5: files are processed in input order, one after another: while file i
\* is being decoded the decodes dispatched so far are those of files 0..i in
\* this order, the last progress call is (i / N) * 100 for file i, the
\* "Loading" calls so far are those of files 0..i in order, and every earlier
\* file has either loaded or had its failure reported.
C5_SequentialInOrder ==
    Processing(Direct) =>
        LET i == idx[Direct]
            n == Len(file_list[Direct])
            p == progress[Direct]
            loading == SelectSeq(p, LAMBDA m : m.kind = "Loading")
        IN  /\ started[Direct] = [j \in 1..(i + 1) |-> j - 1]
            /\ Len(p) > 0
            /\ p[Len(p)] = MsgLoading(i, n)
            /\ loading = [j \in 1..(i + 1) |-> MsgLoading(j - 1, n)]
            /\ \A j \in 0..(i - 1) :
                  \/ j \in okFiles[Direct]
                  \/ \E m \in DOMAIN p : p[m].file = j /\ p[m].kind \in {"Error", "Warning"}

\* the decode of the second file is in flight after the first file failed
C5_Witness ==
    /\ pc[Direct] = "fetching"
    /\ idx[Direct] = 1
    /\ 0 \notin okFiles[Direct]

\* C6: at any moment at most one decode is in flight.
C6_OneDecodeInFlight ==
    Cardinality({t \in Callers : pc[t] = "fetching"}) <= 1

\* C7: with the decode cache enabled, no key resident in the cache is being
\* fetched from the remote source, and no two fetches of the same key are in
\* flight at the same time.
C7_NoDuplicateFetch ==
    cache_enabled =>
        \A t \in Callers :
            pc[t] = "fetching" =>
                /\ CacheKey(t) \notin Range(cache)
                /\ \A u \in Callers \ {t} :
                      pc[u] = "fetching" => CacheKey(u) # CacheKey(t)

\* the records of the store's files that are not below a directory of failed
OtherBranches(failed) ==
    {r \in Range(Crawls[{}].records) :
        \A d \in failed : ~StartsWith(r.url, <<"g","s",":","/","/">> \o d \o <<"/">>)}

\* C8: when the listing of a directory below the bucket raises during a
\* crawl (a projection's institutions, an institution's models, a model's
\* experiments or an experiment's files), build_file_index does not raise and
\* the catalog it returns holds the record of every file of the other
\* branches.  Stated for the crawls whose save does not fail and that have
\* files in other branches.
C8_ListingErrorSkipsBranch ==
    (/\ last_call.crawled
     /\ last_call.failed # {}
     /\ Bucket \notin last_call.failed
     /\ last_call.save \in {"none", "ok"}
     /\ OtherBranches(last_call.failed) # {})
    => /\ index_result.status = "returned"
       /\ OtherBranches(last_call.failed) \subseteq Range(index_result.catalog)

\* C9: when the write of the cache file fails after a crawl,
\* build_file_index still returns the catalog it built.
C9_PersistBestEffort ==
    last_call.save \in {"write_error", "write_partial"}
    => /\ index_result.status = "returned"
       /\ index_result.catalog # <<>>

\* C10 (as claimed): across the get_file_index calls of one process, none of
\* them forced, at most one crawl of the remote store happens.  The runs in
\* which no listing and no write of the parquet file fails already refute it.
C10_AtMostOneCrawl ==
    (forced_calls = 0 /\ faulty_crawls = 0) => crawls <= 1

\* C10 (amended): across the get_file_index calls of one process, none of
\* them forced, at most one crawl runs to completion; a call that finds no
\* cache file crawls instead of failing for the missing file; and once a
\* build has completed every later call returns the persisted catalog
\* without listing the remote store.
C10_OneBuild ==
    forced_calls = 0
    => /\ builds <= 1
       /\ (calls > 0 /\ last_call.before = "absent") => last_call.crawled
       /\ last_call.built_before
          => /\ ~last_call.crawled
             /\ index_result.status = "returned"
             /\ cache_file.state = "written"
             /\ index_result.catalog = read_parquet(cache_file)

\* a second unforced call has returned the catalog the first one built
C10_Witness ==
    /\ forced_calls = 0
    /\ calls = 2
    /\ last_call.built_before
    /\ ~last_call.crawled
    /\ index_result.status = "returned"
    /\ Len(index_result.catalog) = 3

\* a call that finds a written catalog file and does not force a rebuild
UnforcedRead ==
    /\ calls' = calls + 1
    /\ ~last_call'.force_rebuild
    /\ cache_file.state = "written"

\* C11: a get_file_index call that finds the persisted catalog file and does
\* not force a rebuild returns the rows stored in the file, column for
\* column and in the file's order, without listing the remote store, and
\* leaves the file as it is; when the call before it was of the same kind,
\* both return the same content.
C11_ReadIsIdempotent ==
    [][UnforcedRead =>
          /\ cache_file' = cache_file
          /\ ~last_call'.crawled
          /\ index_result'.status = "returned"
          /\ Len(index_result'.catalog) = cache_file.content.rows
          /\ \A i \in 1..cache_file.content.rows : \A c \in Columns :
                index_result'.catalog[i][c] = cache_file.content.columns[c][i]
          /\ (calls > 0 /\ ~last_call.force_rebuild /\ last_call.before = "written")
                => index_result'.catalog = index_result.catalog]_vars

\* two calls in a row have read the catalog an earlier run saved
C11_Witness ==
    /\ calls = 2
    /\ crawls = 0
    /\ forced_calls = 0
    /\ cache_file.state = "written"
    /\ index_result.status = "returned"
    /\ Len(index_result.catalog) = 3

\* the parts make a path of the expected hierarchy
\*   ismip6/Projection-<ICE_SHEET>/<INSTITUTION>/<MODEL>/<EXPERIMENT>/<FILENAME>.nc
ExpectedForm(p) ==
    /\ p.root = <<"i","s","m","i","p","6">>
    /\ p.sheet # <<>>
    /\ \A n \in DOMAIN p.sheet : p.sheet[n] \in Range(Upper)
    /\ Len(p.dirs) = 3
    /\ \A n \in DOMAIN p.dirs : p.dirs[n] # <<>>
    /\ Len(p.filename) > 3
    /\ SubSeq(p.filename, Len(p.filename) - 2, Len(p.filename)) = <<".","n","c">>

\* C12: parse_ismip6_path returns a record if and only if the path has
\* exactly the form
\*   ismip6/Projection-<ICE_SHEET>/<INSTITUTION>/<MODEL>/<EXPERIMENT>/<FILENAME>.nc
\* with ICE_SHEET a non-empty run of upper-case letters and every other
\* component one non-empty path segment, and None for every other path.
C12_RecordIffExpectedForm ==
    parse_result # NotCalled =>
        (parse_result # None <=> ExpectedForm(path_parts))

\* the token of a file name that precedes its first underscore (all of the
\* name before ".nc" when it has none)
FilenameToken(filename) ==
    IF "_" \in Range(filename)
    THEN SubSeq(filename, 1,
                (CHOOSE n \in DOMAIN filename :
                    /\ filename[n] = "_"
                    /\ \A m \in 1..(n - 1) : filename[m] # "_") - 1)
    ELSE SubSeq(filename, 1, Len(filename) - 3)

\* a record was returned for a path of the expected hierarchy
ParsedExpected ==
    /\ parse_result # NotCalled
    /\ parse_result # None
    /\ ExpectedForm(path_parts)

\* C13: the experiment prefix is stripped from the variable token exactly
\* when the token starts with the experiment name and what follows is not
\* empty and begins with a lower-case letter; otherwise the token is
\* returned unchanged.  Stated on the paths of the expected hierarchy, where
\* the token and the experiment can be read off the path.
C13_PrefixStripped ==
    ParsedExpected =>
        LET token == FilenameToken(path_parts.filename)
            experiment == path_parts.dirs[3]
            prefixed == /\ Len(experiment) <= Len(token)
                        /\ SubSeq(token, 1, Len(experiment)) = experiment
            remainder == SubSeq(token, Len(experiment) + 1, Len(token))
        IN  IF prefixed /\ remainder # <<>> /\ remainder[1] \in Range(Lower)
            THEN parse_result.variable = remainder
            ELSE parse_result.variable = token

\* the prefix exp was stripped from the token expab
C13_Witness ==
    /\ ParsedExpected
    /\ path_parts.dirs[3] = <<"e","x","p">>
    /\ path_parts.filename = <<"e","x","p","a","b","_","x",".","n","c">>
    /\ parse_result.variable = <<"a","b">>

\* C14: the record returned for a path of the expected hierarchy has
\* ice_sheet, institution, model_name and experiment equal to the segments
\* of the path, a variable that is the token before the first underscore of
\* the file name or that token without the experiment name in front, and
\* the url "gs://" + path, from which the path can be read back, so that
\* distinct paths give distinct urls.
C14_RecordFields ==
    ParsedExpected =>
        LET token == FilenameToken(path_parts.filename)
        IN  /\ parse_result.ice_sheet = path_parts.sheet
            /\ parse_result.institution = path_parts.dirs[1]
            /\ parse_result.model_name = path_parts.dirs[2]
            /\ parse_result.experiment = path_parts.dirs[3]
            /\ \/ parse_result.variable = token
               \/ path_parts.dirs[3] \o parse_result.variable = token
            /\ parse_result.variable # <<>>
            /\ parse_result.url = <<"g","s",":","/","/">> \o path
            /\ SubSeq(parse_result.url, 6, Len(parse_result.url)) = path

\* a record was returned for ismip6/Projection-AIS/AWI/exp/exp/lithk_a.nc
C14_Witness ==
    /\ ParsedExpected
    /\ path_parts.dirs = <<<<"A","W","I">>, <<"e","x","p">>, <<"e","x","p">>>>
    /\ path_parts.filename = <<"l","i","t","h","k","_","a",".","n","c">>
    /\ parse_result.variable = <<"l","i","t","h","k">>

\* the call of the direct caller has returned
Returned0 == pc[Direct] = "returned"

\* the time coordinates of a set of arrays, each array <<url, variable>>
CoordsOf(arrays) ==
    {TimeCoordOf(a[1], a[2]) : a \in {b \in arrays : TimeCoordOf(b[1], b[2]).has_time}}

\* the years of all timestamps of a set of time coordinates
YearsIn(coords) == UNION {{c.times[n][1] : n \in DOMAIN c.times} : c \in coords}

\* <<min, max>> of a non-empty set of years
Extent(years) ==
    <<CHOOSE y \in years : \A z \in years : y <= z,
      CHOOSE y \in years : \A z \in years : z <= y>>

\* the arrays of the files that loaded in the run of the direct caller
LoadedArrays ==
    {<<file_list[Direct][i + 1].url, variable[Direct]>> : i \in okFiles[Direct]}

\* the arrays of the mapping the direct caller has
ReturnedArrays ==
    {<<datasets[Direct][k].url, variable[Direct]>> : k \in DOMAIN datasets[Direct]}

C16_RangeOfReturnedArrays ==
    Returned0 =>
        IF \/ YearsIn(CoordsOf(ReturnedArrays)) = {}
           \/ \E c \in CoordsOf(ReturnedArrays) : ~c.convertible
        THEN time_range[Direct] = NoTimeRange
        ELSE time_range[Direct] = Extent(YearsIn(CoordsOf(ReturnedArrays)))

\* C17: for a non-empty input list the final progress call is
\* (100, "Loaded n datasets successfully") with n the number of input files
\* that loaded successfully.
C17_LoadedCount ==
    (Returned0 /\ Len(file_list[Direct]) > 0) =>
        LET p == progress[Direct]
        IN  /\ Len(p) > 0
            /\ p[Len(p)].kind = "Loaded"
            /\ p[Len(p)].pct = Pct(100, 1)
            /\ p[Len(p)].count = Cardinality(okFiles[Direct])

\* C18: for every file whose open or decode has failed, the progress
\* callback was called, after the file's own progress report and before the
\* progress report of the next file, with a status text that contains the
\* display key of the file.
C18_FailureNamesKey ==
    \A j \in 0..(Len(file_list[Direct]) - 1) :
        (j < idx[Direct] /\ j \notin okFiles[Direct]) =>
            LET p == progress[Direct]
            IN  \E m \in DOMAIN p :
                   /\ p[m].kind \in {"Error", "Warning"}
                   /\ p[m].file = j
                   /\ p[m].key = file_list[Direct][j + 1].key
                   /\ p[m].key # ""
                   /\ \E b \in 1..(m - 1) : p[b].kind = "Loading" /\ p[b].file = j
                   /\ \A a \in DOMAIN p : p[a].file = j + 1 => m < a

\* the failure of the first file was reported with its key, then the second
\* file was begun
C18_Witness ==
    /\ pc[Direct] = "queued"
    /\ idx[Direct] = 1
    /\ Len(progress[Direct]) = 3
    /\ progress[Direct][2].kind = "Error"
    /\ progress[Direct][2].detail = "exception"
    /\ progress[Direct][2].key = file_list[Direct][1].key
    /\ progress[Direct][3].kind = "Loading"

\* the coroutine resumes with the news that the variable is not in the file
VariableAbsent ==
    /\ pc[Direct] = "ready"
    /\ result[Direct] = "no_var"

\* C19: when the requested variable is absent from the opened file, with the
\* cache enabled or disabled, the file is skipped: the mapping and the
\* collected coordinates stay as they are, the progress callback is told
\* that the variable was not found in the file of that key, nothing is
\* raised, and the loop goes on with the next file or ends the run with its
\* final report.
C19_AbsentVariableSkipped ==
    [][VariableAbsent =>
          LET i == idx[Direct]
              n == Len(file_list[Direct])
              p == progress[Direct]
              q == progress'[Direct]
          IN  /\ datasets'[Direct] = datasets[Direct]
              /\ all_time_coords'[Direct] = all_time_coords[Direct]
              /\ okFiles'[Direct] = okFiles[Direct]
              /\ i \notin okFiles[Direct]
              /\ Len(q) = Len(p) + 2
              /\ SubSeq(q, 1, Len(p)) = p
              /\ q[Len(p) + 1].kind = (IF cache_enabled THEN "Error" ELSE "Warning")
              /\ q[Len(p) + 1].file = i
              /\ q[Len(p) + 1].key = file_list[Direct][i + 1].key
              /\ q[Len(p) + 1].detail = "not found"
              /\ IF i + 1 < n
                 THEN /\ pc'[Direct] = "queued"
                      /\ idx'[Direct] = i + 1
                      /\ q[Len(q)] = MsgLoading(i + 1, n)
                 ELSE /\ pc'[Direct] = "returned"
                      /\ q[Len(q)].kind = "Loaded"]_vars

\* with the cache enabled, the first file was skipped for its missing
\* variable and the second file loaded
C19_Witness ==
    /\ cache_enabled
    /\ Returned0
    /\ Len(file_list[Direct]) = 2
    /\ progress[Direct][2].kind = "Error"
    /\ progress[Direct][2].detail = "not found"
    /\ okFiles[Direct] = {1}
    /\ DOMAIN datasets[Direct] = {file_list[Direct][2].key}

\* on_compare_click of task t ends in this step, after a load in which no file
\* loaded
AllFailedEnds(t) ==
    /\ pc[t] = "ready"
    /\ pc'[t] = "idle"
    /\ okFiles[t] = {}
    /\ datasets[t] = EmptyDict

\* C20: when every input file has failed to load, load_datasets_async
\* returns an empty mapping without raising, and the compare handler that
\* awaited it raises the "Failed to load any datasets" notification, leaves
\* state.datasets empty and resets the loading state.
C20_AllFailed ==
    [][\A t \in Tasks :
          AllFailedEnds(t) =>
              /\ notification' = "error: Failed to load any datasets"
              /\ state_datasets' = EmptyDict
              /\ is_loading' = FALSE
              /\ button_disabled' = FALSE]_vars

\* load_datasets_async returns in this step from a call with an empty list
EmptyCallReturns ==
    /\ pc'[Direct] = "returned"
    /\ file_list'[Direct] = <<>>

\* C21: called with an empty input list, load_datasets_async calls the
\* progress callback exactly once, with (100, "No files to load"), returns an
\* empty mapping and no time range, dispatches no decode and neither reads
\* nor changes the decode cache.
C21_EmptyList ==
    [][EmptyCallReturns =>
          /\ Len(progress'[Direct]) = 1
          /\ progress'[Direct][1].kind = "NoFiles"
          /\ progress'[Direct][1].pct.num = 100 * progress'[Direct][1].pct.den
          /\ datasets'[Direct] = EmptyDict
          /\ time_range'[Direct] = NoTimeRange
          /\ started'[Direct] = <<>>
          /\ okFiles'[Direct] = {}
          /\ cache' = cache
          /\ recentKeys' = recentKeys]_vars

\* a call with an empty list has returned while the cache holds an entry of
\* an earlier call
C21_Witness ==
    /\ Returned0
    /\ file_list[Direct] = <<>>
    /\ progress[Direct] = <<MsgNoFiles>>
    /\ cache # <<>>

\* the decode cache holds nothing, was never accessed and answered no request
CacheUnused ==
    /\ cache = <<>>
    /\ recentKeys = <<>>
    /\ result[Direct] # "hit"

\* a dispatched load request starts a fetch from the remote store, and the
\* step leaves the decode cache alone
RequestFetches ==
    /\ pc[Direct] = "queued" /\ pc'[Direct] # "queued" => pc'[Direct] = "fetching"
    /\ cache' = cache
    /\ recentKeys' = recentKeys

\* C24: with the cache disabled every load request fetches the file from the
\* remote store (also a request for a (url, variable) that was fetched
\* before), and the decode cache is neither read nor modified.
C24_CacheDisabled ==
    /\ [](~cache_enabled => CacheUnused)
    /\ [][~cache_enabled => RequestFetches]_vars

\* with the cache disabled, the second file of the list has the url of the
\* first one, which was loaded, and is fetched again
C24_Witness ==
    /\ ~cache_enabled
    /\ pc[Direct] = "fetching"
    /\ idx[Direct] = 1
    /\ file_list[Direct][1].url = file_list[Direct][2].url
    /\ 0 \in okFiles[Direct]

\* the .nc files collected by the last call that the parser accepts, as
\* positions in all_files
AcceptedFiles ==
    {n \in DOMAIN last_call.all_files :
        parse_ismip6_path(last_call.all_files[n].name) # None}

\* row i of the catalog is the record of the collected file n: its url, and
\* the size listed for it or 0 when the listing gave none
RecordOf(i, n) ==
    LET f == last_call.all_files[n]
        row == index_result.catalog[i]
    IN  /\ row.url = <<"g","s",":","/","/">> \o f.name
        /\ row.size_bytes = (IF "size" \in DOMAIN f THEN f.size ELSE 0)

\* C28: a collected .nc file whose path the parser rejects is dropped
\* without failing the build, and the catalog holds exactly one record for
\* each collected .nc file that the parser accepts, with the size listed for
\* it or 0.  Stated for the builds in which neither the walk nor the save
\* raises.
C28_RejectedDropped ==
    (/\ last_call.crawled
     /\ index_result.error \notin {"listing", "mkdir", "to_parquet"})
    => /\ index_result.status = "returned"
       /\ Len(index_result.catalog) = Cardinality(AcceptedFiles)
       /\ \A n \in AcceptedFiles :
             Cardinality({i \in DOMAIN index_result.catalog : RecordOf(i, n)}) = 1

\* the five sort columns of two rows, compared column after column
RowLeq(a, b) == SortKey(a) = SortKey(b) \/ KeyLess(SortKey(a), SortKey(b))

Ordered(rows) ==
    \A i \in DOMAIN rows, j \in DOMAIN rows : i < j => RowLeq(rows[i], rows[j])

\* C29: the catalog a call returns and the catalog persisted at cache_path
\* are ordered by (ice_sheet, institution, model_name, experiment, variable),
\* whatever the order in which the listings returned the files.
C29_Sorted ==
    /\ index_result.status = "returned" => Ordered(index_result.catalog)
    /\ cache_file.state = "written" => Ordered(read_parquet(cache_file))

\* a build has returned and saved a catalog of several rows whose order is
\* not the order in which the walk collected the files
C29_Witness ==
    /\ last_call.crawled
    /\ index_result.status = "returned"
    /\ Len(index_result.catalog) >= 2
    /\ index_result.catalog # ParseAll(last_call.all_files)
    /\ cache_file = WrittenFile(index_result.catalog)

\* x == y on floats: NaN equals nothing
Eq(x, y) == ~x.nan /\ ~y.nan /\ x.inf = y.inf /\ x.v = y.v

\* the array returned under key k holds no sentinel any more: an element of
\* the decoded array that equals a sentinel is missing, every other element
\* is as it was decoded
SentinelsMissing(k) ==
    LET a == datasets[Direct][k]
        decoded == ValuesOf(a.url, variable[Direct])
        sentinels == Range(nan_values[Direct])
    IN  /\ DOMAIN a.values = DOMAIN decoded
        /\ \A n \in DOMAIN decoded :
              IF \E x \in sentinels : Eq(decoded[n], x)
              THEN a.values[n] = NaN
              ELSE a.values[n] = decoded[n]
        /\ \A n \in DOMAIN a.values, x \in sentinels : ~Eq(a.values[n], x)

\* C22: in every array of the mapping load_datasets_async returns, no
\* element equals a value of the caller's sentinel list (such elements were
\* rewritten to the missing value), and every element that equals no
\* sentinel is unchanged; with an empty list the arrays are as decoded.
C22_SentinelsReplaced ==
    Returned0 => \A k \in DOMAIN datasets[Direct] : SentinelsMissing(k)

\* a call with two sentinels has returned an array in which an element was
\* rewritten and another one kept
C22_Witness ==
    /\ Returned0
    /\ Len(nan_values[Direct]) = 2
    /\ \E k \in DOMAIN datasets[Direct] :
          LET a == datasets[Direct][k]
              decoded == ValuesOf(a.url, variable[Direct])
          IN  \E n \in DOMAIN decoded, m \in DOMAIN decoded :
                /\ ~decoded[n].nan /\ a.values[n] = NaN
                /\ ~decoded[m].nan /\ a.values[m] = decoded[m]

\* the last file of the list, among those that loaded, with display key k
LastLoaded(k) ==
    LET files == file_list[Direct]
        i == CHOOSE i \in okFiles[Direct] :
                /\ files[i + 1].key = k
                /\ \A j \in okFiles[Direct] : files[j + 1].key = k => j <= i
    IN  files[i + 1]

\* the time range of the files that loaded, as the amended C15 gives it
LoadedTimeRange ==
    IF \/ YearsIn(CoordsOf(LoadedArrays)) = {}
       \/ \E c \in CoordsOf(LoadedArrays) : ~c.convertible
    THEN NoTimeRange
    ELSE Extent(YearsIn(CoordsOf(LoadedArrays)))

LoadedBeforeClosed(trace) ==
    \A i \in DOMAIN trace :
        trace[i] = "close" => \E j \in 1..(i - 1) : trace[j] = "load"

\* while the cached decode of a key runs, the cache holds no entry for it
DecodingNotCached ==
    (cache_enabled /\ pc[Direct] = "fetching") => CacheKey(Direct) \notin Range(cache)

\* an entry is new in the cache only in the step in which the decode of its
\* key returns its array
StoredOnReturn ==
    Range(cache') \ Range(cache) # {}
    => /\ pc[Direct] = "fetching"
       /\ Range(cache') \ Range(cache) = {CacheKey(Direct)}
       /\ result'[Direct] = "ok"
       /\ decode_trace'[Direct][Len(decode_trace'[Direct])] = "return"

\* the step in which a decode ends by raising leaves the cache as it was
RaiseStoresNothing ==
    (/\ pc[Direct] = "fetching"
     /\ pc'[Direct] = "ready"
     /\ result'[Direct] # "ok")
    => /\ cache' = cache
       /\ recentKeys' = recentKeys

\* C30: in the cached decode the data of the variable is loaded into memory
\* before the dataset handle is closed; an entry becomes present in the
\* decode cache only after the decode returned its array; and a decode that
\* raises leaves the cache unchanged.
C30_DecodeThenStore ==
    /\ [](cache_enabled => LoadedBeforeClosed(decode_trace[Direct]))
    /\ [](DecodingNotCached)
    /\ [][StoredOnReturn /\ RaiseStoresNothing]_vars

\* with the cache enabled, the first file was decoded, closed and stored,
\* and the decode of the second file has raised
C30_Witness ==
    /\ cache_enabled
    /\ pc[Direct] = "ready"
    /\ idx[Direct] = 1
    /\ 0 \in okFiles[Direct]
    /\ result[Direct] = "grid_error"
    /\ decode_trace[Direct] = <<"open", "raise">>
    /\ cache = <<<<file_list[Direct][1].url, variable[Direct]>>>>

\* |a| > |b| and |a| < 1 on numbers given in hundredths
Larger(a, b) == a * a > b * b

NearZero(a) == -100 < a /\ a < 100

\* the range and the colormap the table of the claim gives for the
\* percentile values vmin and vmax
Tabled(vmin, vmax) ==
    IF vmin < 0 /\ 0 < vmax
    THEN IF 0 - vmin >= vmax THEN <<vmin, 0 - vmin, "RdBu_r">>
         ELSE <<0 - vmax, vmax, "RdBu_r">>
    ELSE IF Larger(vmax, vmin) /\ NearZero(vmin) THEN <<0, vmax, "Blues">>
    ELSE IF Larger(vmin, vmax) /\ NearZero(vmax) THEN <<vmin, 0, "Blues_r">>
    ELSE <<vmin, vmax, "viridis">>

\* C25: from the two percentile values vmin and vmax,
\* calculate_global_ranges returns (-m, m, 'RdBu_r') with m = max(|vmin|,
\* |vmax|) if vmin < 0 < vmax; else (0, vmax, 'Blues') if |vmax| > |vmin| and
\* |vmin| < 1; else (vmin, 0, 'Blues_r') if |vmin| > |vmax| and |vmax| < 1;
\* otherwise (vmin, vmax, 'viridis').  So a range that crosses zero comes
\* back symmetric with the diverging colormap, and an all-positive range
\* near zero with vmin clamped to 0 and the sequential-positive colormap.
C25_ColormapTable ==
    global_ranges.called /\ global_ranges.numeric =>
        LET vmin == global_ranges.percentiles[1]
            vmax == global_ranges.percentiles[2]
            got == <<global_ranges.vmin, global_ranges.vmax, global_ranges.cmap>>
        IN  /\ got = Tabled(vmin, vmax)
            /\ (vmin < 0 /\ 0 < vmax)
                => /\ got[1] = 0 - got[2]
                   /\ got[3] = "RdBu_r"
            /\ (0 <= vmin /\ vmin < 100 /\ vmin < vmax)
                => /\ got[1] = 0
                   /\ got[3] = "Blues"

\* the values -3 and 2 (5th and 95th percentile -2.75 and 1.75) gave the
\* symmetric range of 2.75 around zero and the diverging colormap
C25_Witness ==
    /\ global_ranges.called
    /\ global_ranges.numeric
    /\ global_ranges.percentiles = <<-275, 175>>
    /\ global_ranges.vmin = -275
    /\ global_ranges.vmax = 275
    /\ global_ranges.cmap = "RdBu_r"

\* the datasets whose values can be read
Readable == SelectSeq(agg_datasets, LAMBDA d : d.readable)

\* some array that can be read has a finite value
SomeFinite ==
    \E i \in DOMAIN Readable :
        \E n \in DOMAIN Readable[i].values : IsFinite(Readable[i].values[n])

\* C26: when the mapping is empty or no array in it has a finite value,
\* calculate_global_ranges returns (None, None, 'viridis'); an array whose
\* values cannot be sampled is skipped: the result is the one of the mapping
\* without it.
C26_NoFiniteValue ==
    global_ranges.called =>
        /\ ~SomeFinite
            => /\ ~global_ranges.numeric
               /\ global_ranges.cmap = "viridis"
        /\ global_ranges =
              calculate_global_ranges(Readable, agg_percentiles[1], agg_percentiles[2])

\* of two datasets the first cannot be read and the second gave the range
C26_Witness ==
    /\ global_ranges.called
    /\ Len(agg_datasets) = 2
    /\ ~agg_datasets[1].readable
    /\ global_ranges.numeric
    /\ global_ranges.cmap = "Blues"

\* <<min, max>> of a coordinate vector
Span2(c) ==
    <<CHOOSE v \in Range(c) : \A w \in Range(c) : v <= w,
      CHOOSE v \in Range(c) : \A w \in Range(c) : w <= v>>

LoadUnfinished == \E t \in Tasks : pc[t] # "idle"

\* C31: state.is_loading is true in every state in which a load started by
\* on_compare_click has not yet finished, and false once every started
\* compare has finished, also when two compare invocations overlap.
C31_LoadingWhileUnfinished ==
    is_loading <=> LoadUnfinished

\* C32: while state.is_loading is true the compare button is disabled,
\* whatever selection-change events occur during the load.
C32_DisabledWhileLoading ==
    is_loading => button_disabled

\* in what the processing of a file did to the dataset, every open is
\* followed by a close
HandleClosed(trace) ==
    \A i \in DOMAIN trace :
        trace[i] = "open" => \E j \in (i + 1)..Len(trace) : trace[j] = "close"

\* the processing of the current file of caller t ends in this step: the
\* coroutine leaves the iteration of the loop
FileEnds(t) ==
    /\ pc[t] = "ready"
    /\ pc'[t] # "ready"

\* C33: every dataset handle opened while processing a file (by
\* load_single_netcdf_cached, or by the uncached path of load_datasets_async)
\* is closed by the time the processing of that file ends, on success and on
\* every failure path (grid-correction error, requested variable missing).
C33_HandlesClosed ==
    [][\A t \in Callers : FileEnds(t) => HandleClosed(decode_trace[t])]_vars

\* every entry of the decode cache is the array as it was decoded
EntriesAsDecoded ==
    \A k \in Range(cache) : cache_data[k] = DecodedArray(k[1], k[2])

\* a load served from the decode cache got the array as it was decoded
HitAsDecoded ==
    \A t \in Callers :
        result[t] = "hit" =>
            var_data[t] = DecodedArray(CacheKey(t)[1], CacheKey(t)[2])

\* C34: rewriting sentinels to the missing value inside load_datasets_async
\* never alters the entry stored in the decode cache: a later load of the
\* same (url, variable) with a different sentinel list gets the values as
\* they were originally decoded.
C34_CacheEntryUntouched ==
    EntriesAsDecoded /\ HitAsDecoded

\* a load without sentinels is served from the cache an array in which an
\* earlier load, with a sentinel list, has replaced values
C34_Witness ==
    /\ cache_enabled
    /\ pc[Direct] = "ready"
    /\ result[Direct] = "hit"
    /\ nan_values[Direct] = <<>>
    /\ CacheKey(Direct) \in rewritten
    /\ var_data[Direct].values = <<Float(5), Float(9), Float(0)>>

\* the last call crawled the store, no listing error ended the walk, and the
\* walk collected no file that the parser accepts
EmptyCrawl ==
    /\ last_call.crawled
    /\ index_result.error # "listing"
    /\ ParseAll(last_call.all_files) = <<>>

\* C35: when the root listing succeeds but the crawl collects no parseable
\* file (empty store, every branch skipped, or every path rejected),
\* build_file_index returns an empty catalog instead of raising.
C35_EmptyCrawlReturnsEmpty ==
    EmptyCrawl =>
        /\ index_result.status = "returned"
        /\ index_result.catalog = <<>>

\* a forced rebuild that finds a persisted catalog raises in this step
ForcedRebuildRaises ==
    /\ calls' = calls + 1
    /\ last_call'.force_rebuild
    /\ cache_file.state = "written"
    /\ index_result'.status = "raised"

\* the call of this step is not forced and follows a forced rebuild that
\* found a persisted catalog and raised
ReadAfterFailedRebuild ==
    /\ calls' = calls + 1
    /\ ~last_call'.force_rebuild
    /\ last_call.force_rebuild
    /\ last_call.before = "written"
    /\ index_result.status = "raised"

\* C36: if a forced rebuild raises (for example because the root listing
\* fails), the previously persisted catalog file is left unchanged, and a
\* later non-forced get_file_index call still returns the old catalog.
C36_FailedRebuildKeepsFile ==
    [][/\ ForcedRebuildRaises => cache_file' = cache_file
       /\ ReadAfterFailedRebuild =>
             /\ cache_file.state = "written"
             /\ index_result'.status = "returned"
             /\ index_result'.catalog = read_parquet(cache_file)
             /\ cache_file' = cache_file]_vars

\* calculate_global_ranges has returned numeric bounds, and the percentile
\* values it started from are in order
OrderedPercentiles ==
    /\ global_ranges.called
    /\ global_ranges.numeric
    /\ global_ranges.percentiles[1] <= global_ranges.percentiles[2]

\* C37: whenever calculate_global_ranges returns numeric bounds and the
\* percentile values it started from satisfy vmin <= vmax, the returned
\* bounds satisfy vmin <= vmax, in each of the four colormap branches.
C37_BoundsOrdered ==
    OrderedPercentiles => global_ranges.vmin <= global_ranges.vmax

\* a range that crosses zero was made symmetric, its lower percentile value
\* being the one of the larger magnitude
C37_Witness ==
    /\ OrderedPercentiles
    /\ global_ranges.cmap = "RdBu_r"
    /\ global_ranges.percentiles[1] + global_ranges.percentiles[2] < 0
    /\ global_ranges.vmin = global_ranges.percentiles[1]
    /\ global_ranges.vmax = 0 - global_ranges.percentiles[1]

\* the time range load_datasets_async returns to task t when the file it is
\* at is its last one
ReturnedRange(t) ==
    CalcTimeRange(IF result[t] \in {"ok", "hit"}
                  THEN CollectTime(all_time_coords[t],
                                   LoadedArray(var_data[t], nan_values[t],
                                               time_step[t]).time)
                  ELSE all_time_coords[t])

\* the compare of task t ends in this step, and at least one dataset was
\* loaded
CompareLoaded(t) ==
    /\ pc[t] = "ready"
    /\ pc'[t] = "idle"
    /\ okFiles[t] # {}

\* C38: after a compare that loads at least one dataset,
\* state.time_slider_visible is true if and only if the loader returned a
\* time range; when it is true, time_range_min and time_range_max equal the
\* returned (min_year, max_year) and time_slider_year equals min_year.
C38_TimeSlider ==
    [][\A t \in Tasks :
          CompareLoaded(t) =>
              /\ time_slider_visible' = (ReturnedRange(t) # NoTimeRange)
              /\ time_slider_visible' =>
                    /\ time_range_min' = ReturnedRange(t)[1]
                    /\ time_range_max' = ReturnedRange(t)[2]
                    /\ time_slider_year' = ReturnedRange(t)[1]]_vars

\* a compare has loaded two datasets and the slider shows the years their
\* time coordinates span together
C38_Witness ==
    /\ \A t \in Tasks : pc[t] = "idle"
    /\ Cardinality(DOMAIN state_datasets) = 2
    /\ time_slider_visible
    /\ time_range_min = 2015
    /\ time_range_max = 2300
    /\ time_slider_year = 2015
====
